---- MODULE Spec2Model ----
(***************************************************************************)
(* umbrel-bitcoin (Bitcoin Knots edition): the process supervisor          *)
(* (BitcoindManager), the settings facade (config.ts) and the derivation   *)
(* rules, as a state machine.                                              *)
(*                                                                         *)
(* The backend runs on the Node.js event loop.  A step of the model is one *)
(* event-loop task: an incoming call, a child-process event, a completed   *)
(* file operation.  Promise continuations are microtasks: they are kept in *)
(* the FIFO queue `microtasks` and the queue is drained before the next    *)
(* task starts.                                                            *)
(***************************************************************************)
EXTENDS Integers, Sequences, FiniteSets, TLC

\* ---------------------------------------------------------------- bounds
MaxSpawn == 2      \* child processes spawned in one run
MaxLines == 1      \* raw output lines written in one run
MaxReq   == 2      \* calls in flight at the same time
MaxEmit  == 2      \* 'exit' events emitted in one run
MaxCalls == 2      \* calls of the settings facade in one run
MaxSock == 1       \* WebSocket clients of the exit stream

\* ------------------------------------------------------ program constants
RING_MAX == 200

AVAILABLE_BITCOIN_KNOTS_VERSIONS == <<"v29.2", "v29.1">>
DEFAULT_BITCOIN_KNOTS_VERSION == AVAILABLE_BITCOIN_KNOTS_VERSIONS[1]
LATEST == "latest"
VERSION_CHOICES == {LATEST} \cup {AVAILABLE_BITCOIN_KNOTS_VERSIONS[i] : i \in 1..Len(AVAILABLE_BITCOIN_KNOTS_VERSIONS)}

Reqs  == 1..MaxReq
Procs == 1..MaxSpawn
Socks == 1..MaxSock
NoChild == 0

VARIABLES
  \* BitcoindManager fields
  child,          \* handle of the current child (a Procs id) or NoChild
  startedAt,      \* 0 is null, otherwise the time of the spawn
  lastError,      \* "null", or the recorded error
  exitInfo,       \* NullExitInfo or an ExitInfo record
  logRing,        \* ring buffer of the last lines
  expectingExit,  \* flag set by stop()
  versionInfo,    \* versionInfo.version
  \* events emitter: 'exit' emissions
  emitCount, lastEmit,
  handlers,       \* sockets whose handler is registered on 'exit'
  \* WebSocket clients of the exit stream
  sock,           \* state of each socket
  recv,           \* the messages each client has received, in order
  \* operating system and child-process objects
  symlink,        \* target of /opt/bitcoind/current
  installed,      \* versions with an executable /opt/bitcoind/<v>/bitcoind
  proc,           \* state of each spawned ChildProcess
  exitStatus,     \* code/signal a dead process ended with
  out,            \* raw lines each child wrote to its output pipes
  rd,             \* how many of them the readline interface has delivered
  waiters,        \* once('exit') listeners registered by stop(), in order
  nSpawned,
  \* event loop
  microtasks, pc, op,
  \* settings facade and files
  store,          \* settings.json
  umbrelConf,     \* umbrel-bitcoin.conf
  bitcoinConf,    \* bitcoin.conf
  cachedSettings, \* in-memory cache
  merged,         \* per call: the record being persisted
  arg,            \* per call: the patch passed to updateSettings
  booted,         \* bootBitcoind has been called
  storeWriter,    \* the operation that last wrote settings.json, or "none"
  nCalls,         \* calls of the settings facade so far
  envDefaultChain,\* process.env.DEFAULT_CHAIN, "" when unset
  \* inputs and results of the pure-function specification
  dIn, dOnce, dTwice

mgrVars == <<child, startedAt, lastError, exitInfo, logRing, expectingExit, versionInfo>>
emitVars == <<emitCount, lastEmit, handlers, sock, recv>>
osVars == <<symlink, installed, proc, exitStatus, out, rd, waiters, nSpawned>>
loopVars == <<microtasks, pc, op>>
cfgVars == <<store, umbrelConf, bitcoinConf, cachedSettings, merged, arg, booted, storeWriter, nCalls, envDefaultChain>>
fnVars == <<dIn, dOnce, dTwice>>
vars == <<mgrVars, emitVars, osVars, loopVars, cfgVars, fnVars>>


\* ------------------------------------------------------------ settings
\* The settings catalog (settings.meta.ts), restricted to the keys the
\* derivation rules, the version selector and the chain override read.
NoVersion == "none"

settingsMetadata ==
  [ onlynet |-> [kind |-> "multi", options |-> {"clearnet", "tor", "i2p"},
                 default |-> <<"clearnet", "tor", "i2p">>, requireAtLeastOne |-> TRUE,
                 introducedIn |-> NoVersion, removedIn |-> NoVersion],
    proxy |-> [kind |-> "toggle", default |-> FALSE,
               introducedIn |-> NoVersion, removedIn |-> NoVersion],
    peerblockfilters |-> [kind |-> "toggle", default |-> TRUE,
                          introducedIn |-> NoVersion, removedIn |-> NoVersion],
    blockfilterindex |-> [kind |-> "toggle", default |-> TRUE,
                          introducedIn |-> NoVersion, removedIn |-> NoVersion],
    prune |-> [kind |-> "number", default |-> 0, min |-> 0,
               introducedIn |-> NoVersion, removedIn |-> NoVersion],
    txindex |-> [kind |-> "toggle", default |-> TRUE,
                 introducedIn |-> NoVersion, removedIn |-> NoVersion],
    version |-> [kind |-> "select", options |-> VERSION_CHOICES, default |-> LATEST,
                 introducedIn |-> NoVersion, removedIn |-> NoVersion],
    chain |-> [kind |-> "select", options |-> {"main", "test", "testnet4", "signet", "regtest"},
               default |-> "main",
               introducedIn |-> NoVersion, removedIn |-> NoVersion] ]

\* Array.prototype.indexOf on the version list: 0-based, -1 when absent
IndexOfVersion(v) ==
  IF \E i \in DOMAIN AVAILABLE_BITCOIN_KNOTS_VERSIONS : AVAILABLE_BITCOIN_KNOTS_VERSIONS[i] = v
  THEN (CHOOSE i \in DOMAIN AVAILABLE_BITCOIN_KNOTS_VERSIONS : AVAILABLE_BITCOIN_KNOTS_VERSIONS[i] = v) - 1
  ELSE -1

Includes(seq, x) == \E i \in DOMAIN seq : seq[i] = x

resolveVersion(desired) ==
  IF desired = LATEST THEN DEFAULT_BITCOIN_KNOTS_VERSION ELSE desired

\* value.introducedIn / value.removedIn, falsy when the entry has no such field
Marker(value, field) == IF field \in DOMAIN value THEN value[field] ELSE NoVersion

\* faulty variant: the removedIn test skipping only strictly newer targets
EntryInVersion_removedStrict(value, version) ==
  LET versionIdx == IndexOfVersion(version) IN
  /\ ~(Marker(value, "introducedIn") # NoVersion
       /\ versionIdx > IndexOfVersion(Marker(value, "introducedIn")))
  /\ ~(Marker(value, "removedIn") # NoVersion
       /\ versionIdx < IndexOfVersion(Marker(value, "removedIn")))

\* settingsMetadataForVersion keeps the entry `value` for `version`:
\* neither of its two `continue` tests fires
EntryInVersion(value, version) ==
  LET versionIdx == IndexOfVersion(version) IN
  /\ ~(Marker(value, "introducedIn") # NoVersion
       /\ versionIdx > IndexOfVersion(Marker(value, "introducedIn")))
  /\ ~(Marker(value, "removedIn") # NoVersion
       /\ versionIdx <= IndexOfVersion(Marker(value, "removedIn")))

\* the keys of settingsMetadataForVersion(version)
MetadataKeysForVersion(version) ==
  { key \in DOMAIN settingsMetadata : EntryInVersion(settingsMetadata[key], version) }

\* the loop of settingsMetadataForVersion over the entries of `catalog`: the
\* entries kept, with the versioning fields stripped (no entry of the
\* shipped catalog carries versionOverrides)
MaterializeCatalog(catalog, version) ==
  [key \in { k \in DOMAIN catalog : EntryInVersion(catalog[k], version) } |->
     LET value == catalog[key] IN
     [f \in DOMAIN value \ {"introducedIn", "removedIn", "versionOverrides"} |-> value[f]]]

settingsMetadataForVersion(version) == MaterializeCatalog(settingsMetadata, version)

DefaultValuesForVersion(version) ==
  LET metadata == settingsMetadataForVersion(version) IN
  [key \in DOMAIN metadata |-> metadata[key].default]

\* one zod validator per kind (buildSettingsSchema); values of the model are
\* typed per key, so the kind checks that remain are the bounds, the option
\* sets and the non-empty rule
ValueValid(meta, v) ==
  CASE meta.kind = "number" -> v \in Int /\ v >= meta.min
    [] meta.kind = "toggle" -> v \in BOOLEAN
    [] meta.kind = "multi"  -> /\ \A i \in DOMAIN v : v[i] \in meta.options
                               /\ (meta.requireAtLeastOne => Len(v) > 0)
    [] meta.kind = "select" -> v \in meta.options

\* schemaForVersion(version).parse(rec) does not throw; the object schema is
\* passthrough, so keys outside the metadata are accepted
SchemaAccepts(version, rec) ==
  LET metadata == settingsMetadataForVersion(resolveVersion(version)) IN
  \A key \in DOMAIN metadata :
     /\ key \in DOMAIN rec
     /\ ValueValid(metadata[key], rec[key])

\* object spread {...a, ...b}
Spread(a, b) == [k \in DOMAIN a \cup DOMAIN b |-> IF k \in DOMAIN b THEN b[k] ELSE a[k]]

SelectedVersionOf(rec) == IF "version" \in DOMAIN rec THEN rec["version"] ELSE LATEST

mergeWithDefaults(partial) ==
  LET selectedVersion == SelectedVersionOf(partial)
      resolvedVersion == resolveVersion(selectedVersion)
      defaults == DefaultValuesForVersion(resolvedVersion)
  IN Spread(defaults, partial)

\* faulty variant: filterSettingsForVersion keeping every key
filterSettingsForVersion_keepAll(input, selectedVersion) == input

filterSettingsForVersion(input, selectedVersion) ==
  LET resolvedVersion == resolveVersion(selectedVersion)
      allowedKeys == DOMAIN settingsMetadataForVersion(resolvedVersion)
  IN [key \in DOMAIN input \cap allowedKeys |-> input[key]]

\* faulty variant: the prune rule toggling txindex instead of clearing it
applyDerivedSettings_flip(settings) ==
  LET s1 == IF settings["peerblockfilters"] THEN [settings EXCEPT !["blockfilterindex"] = TRUE] ELSE settings
      s2 == IF s1["prune"] > 0 THEN [s1 EXCEPT !["txindex"] = ~s1["txindex"]] ELSE s1
      s3 == IF s2["proxy"] /\ (~Includes(s2["onlynet"], "clearnet") \/ ~Includes(s2["onlynet"], "tor"))
            THEN [s2 EXCEPT !["proxy"] = FALSE] ELSE s2
  IN s3

applyDerivedSettings(settings) ==
  LET s1 == IF settings["peerblockfilters"] THEN [settings EXCEPT !["blockfilterindex"] = TRUE] ELSE settings
      s2 == IF s1["prune"] > 0 THEN [s1 EXCEPT !["txindex"] = FALSE] ELSE s1
      s3 == IF s2["proxy"] /\ (~Includes(s2["onlynet"], "clearnet") \/ ~Includes(s2["onlynet"], "tor"))
            THEN [s2 EXCEPT !["proxy"] = FALSE] ELSE s2
  IN s3

\* results of operations that may throw
Threw == [ok |-> FALSE]
Returned(v) == [ok |-> TRUE, val |-> v]

\* loadAndValidateSettings on the content of settings.json; env is
\* process.env.DEFAULT_CHAIN ("" when unset, otherwise any string)
loadAndValidateSettings(json, env) ==
  LET partial == IF ~("chain" \in DOMAIN json) /\ env # ""
                 THEN Spread(json, [chain |-> env]) ELSE json
      selectedVersion == SelectedVersionOf(partial)
      mergedRec == mergeWithDefaults(partial)
      filtered == filterSettingsForVersion(mergedRec, selectedVersion)
  IN IF SchemaAccepts(selectedVersion, filtered) THEN Returned(filtered) ELSE Threw


\* ---------------------------------------------------------- supervisor
NullExitInfo == [isNull |-> TRUE]
NoError == "null"
SpawnError == "spawn error"

\* the ways a process ends: exit code or terminating signal
ExitStatuses == { [code |-> "1", sig |-> "null"], [code |-> "null", sig |-> "SIGTERM"] }
NoStatus == [code |-> "null", sig |-> "null"]

\* a raw output line is its text and the white space around it: a line of
\* blanks, or a padded line naming the child that wrote it
LineOf(p) == "line of child " \o ToString(p)
RawLines(p) == { [text |-> "", padded |-> TRUE],
                 [text |-> LineOf(p), padded |-> TRUE] }

\* String.prototype.trim
trim(raw) == raw.text

BITCOIN_KNOTS_VERSIONS_DIR == "/opt/bitcoind"

\* the message start() builds when the binary of `version` is missing
NotInstalledMsg(version) ==
  "Bitcoin Knots version \"" \o version \o "\" is not installed (missing: "
     \o BITCOIN_KNOTS_VERSIONS_DIR \o "/" \o version \o "/bitcoind)."

Alive == {"running", "terminating"}

getVersionFromSettings ==
  IF "version" \in DOMAIN store /\ store["version"] # ""
  THEN (IF store["version"] = LATEST THEN DEFAULT_BITCOIN_KNOTS_VERSION ELSE store["version"])
  ELSE DEFAULT_BITCOIN_KNOTS_VERSION

isVersionInstalled(version) == version \in installed

pidOf(p) == IF p # NoChild /\ proc[p] \in {"running", "terminating", "dead", "reaped"} THEN p ELSE 0

status == [running |-> child # NoChild, startedAt |-> startedAt,
           error |-> lastError, pid |-> pidOf(child)]

\* faulty variant: the oldest line dropped once the ring has reached RING_MAX
recordLine_shiftEarly(ring, line) ==
  LET pushed == Append(ring, line) IN
  IF Len(pushed) >= RING_MAX THEN Tail(pushed) ELSE pushed

\* recordLine: push, then shift once the ring is over RING_MAX
recordLine(ring, line) ==
  LET pushed == Append(ring, line) IN
  IF Len(pushed) > RING_MAX THEN Tail(pushed) ELSE pushed

\* socket.send(JSON.stringify(payload)): delivered while the socket is open,
\* dropped by the socket once it is closing or closed
send(state, s, payload, received) ==
  IF state[s] = "open" THEN [received EXCEPT ![s] = Append(received[s], payload)] ELSE received

\* the handler wsExitStream registers: send({type: 'exit', ...info})
ExitMsg(info) == [f \in {"type"} \cup DOMAIN info |-> IF f \in DOMAIN info THEN info[f] ELSE "exit"]

\* every registered handler called in turn
RECURSIVE callHandlers(_, _, _)
callHandlers(todo, info, received) ==
  IF todo = {} THEN received
  ELSE LET s == CHOOSE x \in todo : TRUE IN
       callHandlers(todo \ {s}, info, send(sock, s, ExitMsg(info), received))

\* events.emit('exit', this.exitInfo)
emitExit(info) ==
  /\ emitCount < MaxEmit
  /\ emitCount' = emitCount + 1
  /\ lastEmit' = info
  /\ recv' = callHandlers(handlers, info, recv)
  /\ UNCHANGED <<handlers, sock>>

\* faulty variant: start() without the early return on an existing child
start_noGuard ==
  LET version == getVersionFromSettings IN
  IF ~isVersionInstalled(version)
  THEN /\ versionInfo' = version
       /\ lastError' = NotInstalledMsg(version)
       /\ exitInfo' = [isNull |-> FALSE, code |-> "null", sig |-> "null",
                       logTail |-> <<NotInstalledMsg(version)>>,
                       message |-> NotInstalledMsg(version)]
       /\ emitExit(exitInfo')
       /\ UNCHANGED <<child, startedAt, logRing, expectingExit, osVars>>
  ELSE \E spawned \in BOOLEAN :
       /\ nSpawned < MaxSpawn
       /\ symlink' = version
       /\ versionInfo' = version
       /\ logRing' = <<>>
       /\ nSpawned' = nSpawned + 1
       /\ startedAt' = nSpawned + 1
       /\ child' = nSpawned + 1
       /\ proc' = [proc EXCEPT ![nSpawned + 1] = IF spawned THEN "running" ELSE "spawnfail"]
       /\ lastError' = NoError
       /\ UNCHANGED <<exitInfo, expectingExit, emitVars, installed, exitStatus, out, rd, waiters>>

\* faulty variant: start() that does not verify the installation
start_noInstallCheck ==
  IF child # NoChild
  THEN UNCHANGED <<mgrVars, emitVars, osVars>>
  ELSE LET version == getVersionFromSettings IN
       \E spawned \in BOOLEAN :
       /\ nSpawned < MaxSpawn
       /\ symlink' = version
       /\ versionInfo' = version
       /\ logRing' = <<>>
       /\ nSpawned' = nSpawned + 1
       /\ startedAt' = nSpawned + 1
       /\ child' = nSpawned + 1
       /\ proc' = [proc EXCEPT ![nSpawned + 1] = IF spawned THEN "running" ELSE "spawnfail"]
       /\ lastError' = NoError
       /\ UNCHANGED <<exitInfo, expectingExit, emitVars, installed, exitStatus, out, rd, waiters>>

\* BitcoindManager.start(): synchronous, so one step.  It constrains the
\* manager, the emitter and the operating system; the caller constrains the
\* rest.
start ==
  IF child # NoChild
  THEN UNCHANGED <<mgrVars, emitVars, osVars>>
  ELSE LET version == getVersionFromSettings IN
       IF ~isVersionInstalled(version)
       THEN /\ versionInfo' = version
            /\ lastError' = NotInstalledMsg(version)
            /\ exitInfo' = [isNull |-> FALSE, code |-> "null", sig |-> "null",
                            logTail |-> <<NotInstalledMsg(version)>>,
                            message |-> NotInstalledMsg(version)]
            /\ emitExit(exitInfo')
            /\ UNCHANGED <<child, startedAt, logRing, expectingExit, osVars>>
       ELSE \* ln -sfn, getBinaryVersionInfo, ring clear, spawn; a spawn that
            \* fails at the OS level still returns a ChildProcess object
            \E spawned \in BOOLEAN :
            /\ nSpawned < MaxSpawn
            /\ symlink' = version
            /\ versionInfo' = version
            /\ logRing' = <<>>
            /\ nSpawned' = nSpawned + 1
            /\ startedAt' = nSpawned + 1
            /\ child' = nSpawned + 1
            /\ proc' = [proc EXCEPT ![nSpawned + 1] = IF spawned THEN "running" ELSE "spawnfail"]
            /\ lastError' = NoError
            /\ UNCHANGED <<exitInfo, expectingExit, emitVars, installed, exitStatus, out, rd, waiters>>

\* child.kill('SIGTERM'): a live process starts terminating, anything else
\* is not affected
kill(p) == [proc EXCEPT ![p] = IF proc[p] = "running" THEN "terminating" ELSE proc[p]]

\* faulty variant: stop() raising the expected-exit flag before its early return
stopSync_flagFirst(r) ==
  IF child = NoChild
  THEN /\ expectingExit' = TRUE
       /\ UNCHANGED <<child, startedAt, lastError, exitInfo, logRing, versionInfo,
                      emitVars, osVars>>
  ELSE /\ expectingExit' = TRUE
       /\ proc' = kill(child)
       /\ waiters' = [waiters EXCEPT ![child] = Append(waiters[child], r)]
       /\ UNCHANGED <<child, startedAt, lastError, exitInfo, logRing, versionInfo,
                      emitVars, symlink, installed, exitStatus, out, rd, nSpawned>>

\* the synchronous part of BitcoindManager.stop() called by r, up to its
\* await; with no child, stop() returns at once
stopSync(r) ==
  IF child = NoChild
  THEN UNCHANGED <<mgrVars, emitVars, osVars>>
  ELSE /\ expectingExit' = TRUE
       /\ proc' = kill(child)
       /\ waiters' = [waiters EXCEPT ![child] = Append(waiters[child], r)]
       /\ UNCHANGED <<child, startedAt, lastError, exitInfo, logRing, versionInfo,
                      emitVars, symlink, installed, exitStatus, out, rd, nSpawned>>


\* ---------------------------------------------------------- event loop
Task(k, r) == [k |-> k, r |-> r]
Idle == microtasks = <<>>     \* a new task starts only with the queue drained
Enqueue(t) == microtasks' = Append(microtasks, t)
Dequeue == microtasks' = Tail(microtasks)
DequeueThen(t) == microtasks' = Append(Tail(microtasks), t)
IsNext(k, r) == microtasks # <<>> /\ Head(microtasks) = Task(k, r)

\* BitcoindManager.restart() called by r, up to its first await:
\* `await this.stop()` suspends either on the child's exit or, when stop()
\* returned at once, for one microtask tick
restartSync(r) ==
  /\ stopSync(r)
  /\ IF child = NoChild
     THEN /\ Enqueue(Task("restartCont", r))
          /\ pc' = [pc EXCEPT ![r] = "restart_cont"]
     ELSE /\ UNCHANGED microtasks
          /\ pc' = [pc EXCEPT ![r] = "stop_await"]

\* a new call takes the lowest free slot
Free(r) == pc[r] = "idle" /\ \A q \in Reqs : q < r => pc[q] # "idle"

\* ------------------------------------------ lifecycle calls (bitcoind.ts)
CallStart ==
  /\ Idle
  /\ start
  /\ UNCHANGED <<loopVars, cfgVars, fnVars>>

CallStop(r) ==
  /\ Idle
  /\ Free(r)
  /\ stopSync(r)
  /\ IF child = NoChild
     THEN UNCHANGED <<pc, op>>
     ELSE /\ pc' = [pc EXCEPT ![r] = "stop_await"]
          /\ op' = [op EXCEPT ![r] = "stop"]
  /\ UNCHANGED <<microtasks, cfgVars, fnVars>>

CallRestart(r) ==
  /\ Idle
  /\ Free(r)
  /\ restartSync(r)
  /\ op' = [op EXCEPT ![r] = "restart"]
  /\ UNCHANGED <<cfgVars, fnVars>>

\* stop() resumes after its await: clear the flag and the state
StopCont(r) ==
  /\ IsNext("stopCont", r)
  /\ expectingExit' = FALSE
  /\ child' = NoChild
  /\ startedAt' = 0
  /\ IF op[r] = "stop"
     THEN /\ Dequeue
          /\ pc' = [pc EXCEPT ![r] = "idle"]
          /\ op' = [op EXCEPT ![r] = "none"]
     ELSE /\ DequeueThen(Task("restartCont", r))
          /\ pc' = [pc EXCEPT ![r] = "restart_cont"]
          /\ UNCHANGED op
  /\ UNCHANGED <<lastError, exitInfo, logRing, versionInfo, emitVars, osVars, cfgVars, fnVars>>

\* restart() resumes after `await this.stop()`: this.start()
RestartCont(r) ==
  /\ IsNext("restartCont", r)
  /\ start
  /\ IF op[r] = "restart"
     THEN /\ Dequeue
          /\ pc' = [pc EXCEPT ![r] = "idle"]
          /\ op' = [op EXCEPT ![r] = "none"]
     ELSE /\ DequeueThen(Task("afterRestart", r))
          /\ pc' = [pc EXCEPT ![r] = "after_restart"]
          /\ UNCHANGED op
  /\ UNCHANGED <<cfgVars, fnVars>>

\* ------------------------------------------------- child-process events
\* the operating system: a live child ends with some status
ChildDies(p, st) ==
  /\ Idle
  /\ proc[p] \in Alive
  /\ proc' = [proc EXCEPT ![p] = "dead"]
  /\ exitStatus' = [exitStatus EXCEPT ![p] = st]
  /\ UNCHANGED <<mgrVars, emitVars, symlink, installed, out, rd, waiters, nSpawned,
                 loopVars, cfgVars, fnVars>>

\* raw lines written so far by the children 1..n
RECURSIVE LinesWritten(_)
LinesWritten(n) == IF n = 0 THEN 0 ELSE Len(out[n]) + LinesWritten(n - 1)

\* a live child writes a raw line to stdout or stderr
ChildWrite(p, raw) ==
  /\ Idle
  /\ proc[p] \in Alive
  /\ LinesWritten(MaxSpawn) < MaxLines
  /\ out' = [out EXCEPT ![p] = Append(out[p], raw)]
  /\ UNCHANGED <<mgrVars, emitVars, symlink, installed, proc, exitStatus, rd, waiters,
                 nSpawned, loopVars, cfgVars, fnVars>>

\* readline 'line' on a stream of child p (onLine): trimmed, blank lines
\* dropped, the rest handed to handleLine -> recordLine.  The streams stay
\* readable after the process has exited, until they are drained.
LineRead(p) ==
  /\ Idle
  /\ rd[p] < Len(out[p])
  /\ rd' = [rd EXCEPT ![p] = rd[p] + 1]
  /\ LET line == trim(out[p][rd[p] + 1]) IN
     logRing' = IF line # "" THEN recordLine(logRing, line) ELSE logRing
  /\ UNCHANGED <<child, startedAt, lastError, exitInfo, expectingExit, versionInfo, emitVars,
                 symlink, installed, proc, exitStatus, out, waiters, nSpawned,
                 loopVars, cfgVars, fnVars>>

\* 'error' on child p: the spawn failed; Node emits no 'exit' for it
ChildError(p) ==
  /\ Idle
  /\ proc[p] = "spawnfail"
  /\ proc' = [proc EXCEPT ![p] = "errored"]
  /\ lastError' = SpawnError
  /\ UNCHANGED <<child, startedAt, exitInfo, logRing, expectingExit, versionInfo, emitVars,
                 symlink, installed, exitStatus, out, rd, waiters, nSpawned,
                 loopVars, cfgVars, fnVars>>

\* the tasks the once('exit') listeners of child p resume, in the order the
\* listeners were registered
ResumeWaiters(p) == [i \in 1..Len(waiters[p]) |-> Task("stopCont", waiters[p][i])]

\* faulty variant: the exit handler without the expectingExit check
ChildExit_alwaysReport(p) ==
  /\ Idle
  /\ proc[p] = "dead"
  /\ proc' = [proc EXCEPT ![p] = "reaped"]
  /\ exitInfo' = [isNull |-> FALSE, code |-> exitStatus[p].code, sig |-> exitStatus[p].sig,
                  logTail |-> logRing, message |-> "Bitcoin Knots stopped (code " \o exitStatus[p].code \o ")"]
  /\ emitExit(exitInfo')
  /\ child' = NoChild
  /\ UNCHANGED <<startedAt, lastError, logRing, expectingExit, versionInfo>>
  /\ microtasks' = microtasks \o ResumeWaiters(p)
  /\ waiters' = [waiters EXCEPT ![p] = <<>>]
  /\ UNCHANGED <<symlink, installed, exitStatus, out, rd, nSpawned, pc, op, cfgVars, fnVars>>

\* 'exit' on child p: first the handler start() attached, then the
\* once('exit') listeners of the stop() calls waiting on p
ChildExit(p) ==
  /\ Idle
  /\ proc[p] = "dead"
  /\ proc' = [proc EXCEPT ![p] = "reaped"]
  /\ IF expectingExit
     THEN UNCHANGED <<mgrVars, emitVars>>
     ELSE /\ exitInfo' = [isNull |-> FALSE, code |-> exitStatus[p].code, sig |-> exitStatus[p].sig,
                          logTail |-> logRing, message |-> "Bitcoin Knots stopped (code " \o exitStatus[p].code \o ")"]
          /\ emitExit(exitInfo')
          /\ child' = NoChild
          /\ UNCHANGED <<startedAt, lastError, logRing, expectingExit, versionInfo>>
  /\ microtasks' = microtasks \o ResumeWaiters(p)
  /\ waiters' = [waiters EXCEPT ![p] = <<>>]
  /\ UNCHANGED <<symlink, installed, exitStatus, out, rd, nSpawned, pc, op, cfgVars, fnVars>>


\* ------------------------------------------------------ settings facade
Undefined == [undefined |-> TRUE]
NoFile == [absent |-> TRUE]
NoRecord == [k \in {} |-> TRUE]

\* the patches callers send: one that triggers the filter and prune rules
\* and carries a key no version defines, one that triggers the proxy rule
\* and switches the version, one the schema rejects
Patches ==
  { [prune |-> 2, peerblockfilters |-> TRUE, blockfilterindex |-> FALSE, bogus |-> TRUE],
    [onlynet |-> <<"tor">>, proxy |-> TRUE, version |-> "v29.1"],
    [prune |-> -1] }

\* contents of settings.json before the backend first writes it: no file
\* (readJson fails, {}), a record pinned to the older version that still
\* carries a key no version defines, a hand-edited record the schema rejects
InitialStores == { NoRecord, [version |-> "v29.1", prune |-> 2, stale |-> TRUE], [prune |-> -1] }

\* bitcoin.conf as its lines; an empty file is one empty line
BannerComment == "# Load additional configuration file, relative to the data directory."
BITCOIN_CONF_INCLUDE_LINE == "includeconf=umbrel-bitcoin.conf"

\* the lines of the model that begin with the text of the include line are
\* that line followed by one of these
IncludeSuffixes == {"", ".bak"}
BeginsWithIncludeLine(line) ==
  \E suffix \in IncludeSuffixes : line = BITCOIN_CONF_INCLUDE_LINE \o suffix

\* contents.startsWith(BITCOIN_CONF_BANNER): the banner is the comment line,
\* a newline and the text of the include line, with no newline after it; a
\* content starts with it when its first line is the comment and its second
\* line begins with the text of the include line
StartsWithBanner(contents) ==
  /\ Len(contents) >= 2
  /\ contents[1] = BannerComment
  /\ BeginsWithIncludeLine(contents[2])

RECURSIVE KeepFirstInclude(_, _)
KeepFirstInclude(lines, seenInclude) ==
  IF lines = <<>> THEN <<>>
  ELSE IF Head(lines) = BITCOIN_CONF_INCLUDE_LINE
       THEN (IF seenInclude THEN KeepFirstInclude(Tail(lines), TRUE)
             ELSE <<Head(lines)>> \o KeepFirstInclude(Tail(lines), TRUE))
       ELSE <<Head(lines)>> \o KeepFirstInclude(Tail(lines), seenInclude)

\* the content ensureIncludeLine writes, given the content it read
ensureIncludeLine(contents) ==
  LET withBanner == IF StartsWithBanner(contents) THEN contents
                    ELSE <<BannerComment, BITCOIN_CONF_INCLUDE_LINE>> \o contents
  IN KeepFirstInclude(withBanner, FALSE)

\* writeUmbrelConf: the managed file is generated wholesale from the
\* record; it is kept as the record it was generated from
writeUmbrelConf(settings) == [from |-> settings]

\* updateSettings up to the schema: target version (payload wins, then the
\* current record, then latest), defaults -> current -> patch, filter
updateSettingsVersion(current, patch) ==
  IF "version" \in DOMAIN patch THEN patch["version"] ELSE SelectedVersionOf(current)

updateSettingsFiltered(current, patch) ==
  LET selectedVersion == updateSettingsVersion(current, patch)
      resolvedVersion == resolveVersion(selectedVersion)
      mergedWithDefaults == Spread(Spread(DefaultValuesForVersion(resolvedVersion), current), patch)
  IN filterSettingsForVersion(mergedWithDefaults, selectedVersion)

\* faulty variant: updateSettings without schemaForVersion(...).parse
updateSettingsMerge_noParse(current, patch) ==
  Returned(applyDerivedSettings(updateSettingsFiltered(current, patch)))

\* faulty variant: updateSettings persisting the validated record, not the derived one
updateSettingsMerge_noDerive(current, patch) ==
  LET filtered == updateSettingsFiltered(current, patch) IN
  IF SchemaAccepts(updateSettingsVersion(current, patch), filtered)
  THEN Returned(filtered) ELSE Threw

\* updateSettings, from `current` to `merged`: validate, then derive
updateSettingsMerge(current, patch) ==
  LET filtered == updateSettingsFiltered(current, patch) IN
  IF SchemaAccepts(updateSettingsVersion(current, patch), filtered)
  THEN Returned(applyDerivedSettings(filtered)) ELSE Threw

\* restoreDefaults, from `current` (or Undefined) to `defaults`
restoreDefaultsRecord(current, env) ==
  LET selectedVersion == IF current = Undefined THEN LATEST ELSE SelectedVersionOf(current)
      resolvedVersion == resolveVersion(selectedVersion)
      defaults == Spread(DefaultValuesForVersion(resolvedVersion), [version |-> selectedVersion])
  IN IF env # "" THEN Spread(defaults, [chain |-> env]) ELSE defaults

\* ensureConfig, from the loaded record to the one it writes
ensureConfigRecord(loaded) == applyDerivedSettings(loaded)


\* the call of r ends (resolved or rejected): its locals are dropped
Finish(r) ==
  /\ pc' = [pc EXCEPT ![r] = "idle"]
  /\ op' = [op EXCEPT ![r] = "none"]
  /\ merged' = [merged EXCEPT ![r] = NoRecord]
  /\ arg' = [arg EXCEPT ![r] = NoRecord]

\* the call of r goes on to persist rec
Persist(r, rec, name, patch) ==
  /\ pc' = [pc EXCEPT ![r] = "write_store"]
  /\ op' = [op EXCEPT ![r] = name]
  /\ merged' = [merged EXCEPT ![r] = rec]
  /\ arg' = [arg EXCEPT ![r] = patch]

\* the call of r waits for loadAndValidateSettings (getSettings on an
\* empty cache, ensureConfig)
AwaitLoad(r, name, patch) ==
  /\ pc' = [pc EXCEPT ![r] = "load"]
  /\ op' = [op EXCEPT ![r] = name]
  /\ arg' = [arg EXCEPT ![r] = patch]
  /\ UNCHANGED merged

\* updateSettings(patch) up to its first file operation
UpdateSettingsCall(r, patch) ==
  /\ Idle
  /\ Free(r)
  /\ nCalls < MaxCalls
  /\ nCalls' = nCalls + 1
  /\ IF cachedSettings # Undefined
     THEN LET res == updateSettingsMerge(cachedSettings, patch) IN
          IF res.ok THEN Persist(r, res.val, "updateSettings", patch)
          ELSE UNCHANGED <<pc, op, merged, arg>>
     ELSE AwaitLoad(r, "updateSettings", patch)
  /\ UNCHANGED <<mgrVars, emitVars, osVars, microtasks, store, umbrelConf, bitcoinConf,
                 cachedSettings, booted, storeWriter, envDefaultChain, fnVars>>

\* restoreDefaults() up to its first file operation
RestoreDefaultsCall(r) ==
  /\ Idle
  /\ Free(r)
  /\ nCalls < MaxCalls
  /\ nCalls' = nCalls + 1
  /\ IF cachedSettings # Undefined
     THEN Persist(r, restoreDefaultsRecord(cachedSettings, envDefaultChain), "restoreDefaults", NoRecord)
     ELSE AwaitLoad(r, "restoreDefaults", NoRecord)
  /\ UNCHANGED <<mgrVars, emitVars, osVars, microtasks, store, umbrelConf, bitcoinConf,
                 cachedSettings, booted, storeWriter, envDefaultChain, fnVars>>

\* bootBitcoind(): ensureConfig() up to its read of settings.json
BootCall(r) ==
  /\ Idle
  /\ Free(r)
  /\ nCalls < MaxCalls
  /\ nCalls' = nCalls + 1
  /\ ~booted
  /\ booted' = TRUE
  /\ AwaitLoad(r, "boot", NoRecord)
  /\ UNCHANGED <<mgrVars, emitVars, osVars, microtasks, store, umbrelConf, bitcoinConf,
                 cachedSettings, storeWriter, envDefaultChain, fnVars>>

\* loadAndValidateSettings completes for r; the caller goes on in the same
\* turn up to its next file operation
LoadSettings(r) ==
  /\ Idle
  /\ pc[r] = "load"
  /\ LET loaded == loadAndValidateSettings(store, envDefaultChain) IN
     CASE op[r] = "updateSettings" ->
            IF loaded.ok
            THEN /\ cachedSettings' = loaded.val
                 /\ LET res == updateSettingsMerge(loaded.val, arg[r]) IN
                    IF res.ok THEN Persist(r, res.val, "updateSettings", arg[r])
                    ELSE Finish(r)
            ELSE /\ Finish(r)
                 /\ UNCHANGED cachedSettings
       [] op[r] = "restoreDefaults" ->
            /\ cachedSettings' = IF loaded.ok THEN loaded.val ELSE cachedSettings
            /\ Persist(r, restoreDefaultsRecord(IF loaded.ok THEN loaded.val ELSE Undefined,
                                                envDefaultChain),
                       "restoreDefaults", NoRecord)
       [] op[r] = "boot" ->
            /\ IF loaded.ok THEN Persist(r, ensureConfigRecord(loaded.val), "boot", NoRecord)
               ELSE Finish(r)
            /\ UNCHANGED cachedSettings
  /\ UNCHANGED <<mgrVars, emitVars, osVars, microtasks, store, umbrelConf, bitcoinConf,
                 booted, storeWriter, nCalls, envDefaultChain, fnVars>>

\* faulty variant: the patch applied to the store as it is at the write
WriteSettingsJson_remerge(r) ==
  /\ Idle
  /\ pc[r] = "write_store"
  /\ store' = IF op[r] = "updateSettings" THEN Spread(store, arg[r]) ELSE merged[r]
  /\ storeWriter' = op[r]
  /\ pc' = [pc EXCEPT ![r] = "write_conf"]
  /\ UNCHANGED <<mgrVars, emitVars, osVars, microtasks, op, umbrelConf, bitcoinConf,
                 cachedSettings, merged, arg, booted, nCalls, envDefaultChain, fnVars>>

\* writeWithBackup(SETTINGS_JSON, ...) completes
WriteSettingsJson(r) ==
  /\ Idle
  /\ pc[r] = "write_store"
  /\ store' = merged[r]
  /\ storeWriter' = op[r]
  /\ pc' = [pc EXCEPT ![r] = "write_conf"]
  /\ UNCHANGED <<mgrVars, emitVars, osVars, microtasks, op, umbrelConf, bitcoinConf,
                 cachedSettings, merged, arg, booted, nCalls, envDefaultChain, fnVars>>

\* faulty variant: the call goes on without the managed file written
WriteUmbrelConf_skipped(r) ==
  /\ Idle
  /\ pc[r] = "write_conf"
  /\ pc' = [pc EXCEPT ![r] = "ensure_include"]
  /\ UNCHANGED <<mgrVars, emitVars, osVars, microtasks, op, store, umbrelConf, bitcoinConf,
                 cachedSettings, merged, arg, booted, storeWriter, nCalls, envDefaultChain, fnVars>>

\* writeUmbrelConf(...) completes
WriteUmbrelConf(r) ==
  /\ Idle
  /\ pc[r] = "write_conf"
  /\ umbrelConf' = writeUmbrelConf(merged[r])
  /\ pc' = [pc EXCEPT ![r] = "ensure_include"]
  /\ UNCHANGED <<mgrVars, emitVars, osVars, microtasks, op, store, bitcoinConf,
                 cachedSettings, merged, arg, booted, storeWriter, nCalls, envDefaultChain, fnVars>>

\* ensureIncludeLine() rewrites bitcoin.conf
EnsureIncludeLine(r) ==
  /\ Idle
  /\ pc[r] = "ensure_include"
  /\ bitcoinConf' = ensureIncludeLine(bitcoinConf)
  /\ pc' = [pc EXCEPT ![r] = IF op[r] = "boot" THEN "boot_start" ELSE "restart"]
  /\ UNCHANGED <<mgrVars, emitVars, osVars, microtasks, op, store, umbrelConf,
                 cachedSettings, merged, arg, booted, storeWriter, nCalls, envDefaultChain, fnVars>>

\* updateSettings / restoreDefaults: `await restart()`
RestartAfterWrite(r) ==
  /\ Idle
  /\ pc[r] = "restart"
  /\ restartSync(r)
  /\ UNCHANGED <<op, cfgVars, fnVars>>

\* bootBitcoind: bitcoind.start() after ensureConfig()
BootStart(r) ==
  /\ Idle
  /\ pc[r] = "boot_start"
  /\ start
  /\ Finish(r)
  /\ UNCHANGED <<microtasks, store, umbrelConf, bitcoinConf, cachedSettings, booted,
                 storeWriter, nCalls, envDefaultChain, fnVars>>

\* updateSettings / restoreDefaults resume after `await restart()`:
\* the cache takes the persisted record
AfterRestart(r) ==
  /\ IsNext("afterRestart", r)
  /\ Dequeue
  /\ cachedSettings' = merged[r]
  /\ Finish(r)
  /\ UNCHANGED <<mgrVars, emitVars, osVars, store, umbrelConf, bitcoinConf, booted,
                 storeWriter, nCalls, envDefaultChain, fnVars>>

\* --------------------------------------------------------- specification
InstalledChoices == { {"v29.2", "v29.1"}, {"v29.2"} }

InitRest ==
  /\ umbrelConf = NoFile
  /\ cachedSettings = Undefined
  /\ merged = [r \in Reqs |-> NoRecord]
  /\ arg = [r \in Reqs |-> NoRecord]
  /\ booted = FALSE
  /\ storeWriter = "none"
  /\ nCalls = 0
  /\ child = NoChild
  /\ startedAt = 0
  /\ lastError = NoError
  /\ exitInfo = NullExitInfo
  /\ logRing = <<>>
  /\ expectingExit = FALSE
  /\ versionInfo = getVersionFromSettings
  /\ emitCount = 0
  /\ lastEmit = NullExitInfo
  /\ handlers = {}
  /\ sock = [s \in Socks |-> "none"]
  /\ recv = [s \in Socks |-> <<>>]
  /\ symlink = DEFAULT_BITCOIN_KNOTS_VERSION
  /\ proc = [p \in Procs |-> "none"]
  /\ exitStatus = [p \in Procs |-> NoStatus]
  /\ out = [p \in Procs |-> <<>>]
  /\ rd = [p \in Procs |-> 0]
  /\ waiters = [p \in Procs |-> <<>>]
  /\ nSpawned = 0
  /\ microtasks = <<>>
  /\ pc = [r \in Reqs |-> "idle"]
  /\ op = [r \in Reqs |-> "none"]

\* the backend after construction, settings.json as some earlier run or the
\* user left it
Init ==
  /\ store \in InitialStores
  /\ installed \in InstalledChoices
  /\ envDefaultChain = ""
  /\ bitcoinConf = <<"">>
  /\ InitRest
  /\ dIn = NoRecord /\ dOnce = NoRecord /\ dTwice = NoRecord

\* process.env.DEFAULT_CHAIN: unset, or set to a name that is not a chain of
\* the catalog
DefaultChainChoices == {"", "mainnet"}

InitSettings ==
  /\ store \in InitialStores
  /\ installed = {"v29.2", "v29.1"}
  /\ envDefaultChain \in DefaultChainChoices
  /\ bitcoinConf = <<"rpcthreads=8", BITCOIN_CONF_INCLUDE_LINE, "">>
  /\ InitRest
  /\ dIn = NoRecord /\ dOnce = NoRecord /\ dTwice = NoRecord

\* the supervisor and its child processes under direct lifecycle calls
Next ==
  \/ CallStart
  \/ \E r \in Reqs : CallStop(r)
  \/ \E r \in Reqs : CallRestart(r)
  \/ \E r \in Reqs : StopCont(r)
  \/ \E r \in Reqs : RestartCont(r)
  \/ \E p \in Procs, st \in ExitStatuses : ChildDies(p, st)
  \/ \E p \in Procs : \E raw \in RawLines(p) : ChildWrite(p, raw)
  \/ \E p \in Procs : LineRead(p)
  \/ \E p \in Procs : ChildError(p)
  \/ \E p \in Procs : ChildExit(p)

Spec == Init /\ [][Next]_vars

\* the settings facade driving the supervisor
NextSettings ==
  \/ \E r \in Reqs, patch \in Patches : UpdateSettingsCall(r, patch)
  \/ \E r \in Reqs : RestoreDefaultsCall(r)
  \/ \E r \in Reqs : BootCall(r)
  \/ \E r \in Reqs : LoadSettings(r)
  \/ \E r \in Reqs : WriteSettingsJson(r)
  \/ \E r \in Reqs : WriteUmbrelConf(r)
  \/ \E r \in Reqs : EnsureIncludeLine(r)
  \/ \E r \in Reqs : RestartAfterWrite(r)
  \/ \E r \in Reqs : BootStart(r)
  \/ \E r \in Reqs : AfterRestart(r)
  \/ \E r \in Reqs : StopCont(r)
  \/ \E r \in Reqs : RestartCont(r)
  \/ \E p \in Procs : ChildDies(p, [code |-> "1", sig |-> "null"])
  \/ \E p \in Procs : ChildError(p)
  \/ \E p \in Procs : ChildExit(p)

SpecSettings == InitSettings /\ [][NextSettings]_vars


\* the derivation engine on its own: every record some supported version's
\* schema accepts, derived once and then once more
MaxPrune == 2      \* largest prune target tried
MaxNets  == 2      \* longest onlynet list tried

NetLists == UNION { [1..n -> settingsMetadata["onlynet"].options] : n \in 0..MaxNets }

DeriveInputs ==
  { s \in [onlynet : NetLists, proxy : BOOLEAN, peerblockfilters : BOOLEAN,
           blockfilterindex : BOOLEAN, prune : (-1)..MaxPrune, txindex : BOOLEAN,
           version : VERSION_CHOICES, chain : {"main", "regtest"}] :
      SchemaAccepts(s["version"], s) }

InitDerive ==
  /\ dIn \in DeriveInputs
  /\ dOnce = NoRecord
  /\ dTwice = NoRecord
  /\ store = NoRecord
  /\ installed = {"v29.2", "v29.1"}
  /\ envDefaultChain = ""
  /\ bitcoinConf = <<"">>
  /\ InitRest

DeriveOnce ==
  /\ dOnce = NoRecord
  /\ dOnce' = applyDerivedSettings(dIn)
  /\ UNCHANGED <<dIn, dTwice, mgrVars, emitVars, osVars, loopVars, cfgVars>>

DeriveTwice ==
  /\ dOnce # NoRecord
  /\ dTwice = NoRecord
  /\ dTwice' = applyDerivedSettings(dOnce)
  /\ UNCHANGED <<dIn, dOnce, mgrVars, emitVars, osVars, loopVars, cfgVars>>

NextDerive == DeriveOnce \/ DeriveTwice

SpecDerive == InitDerive /\ [][NextDerive]_vars


\* ================================================= supervisor properties
\* the 'exit' event of child p is dispatched to the handler start() attached
ExitDispatched(p) == proc[p] = "dead" /\ proc'[p] = "reaped"

\* C1: when the child exits and the expected-exit flag is not set, exactly
\* one 'exit' event is emitted; its ExitInfo carries the exit code and the
\* signal, and a log tail that is non-empty whenever the child wrote at
\* least one non-empty output line; running is false from then on and
\* becomes true again only by a start() that spawns.
C1_UnexpectedExitReported ==
  /\ [][\A p \in Procs :
          (ExitDispatched(p) /\ ~expectingExit) =>
             /\ emitCount' = emitCount + 1
             /\ lastEmit' = exitInfo'
             /\ exitInfo'.code = exitStatus[p].code
             /\ exitInfo'.sig = exitStatus[p].sig
             /\ ((\E i \in DOMAIN out[p] : trim(out[p][i]) # "") => exitInfo'.logTail # <<>>)
             /\ ~status'.running]_vars
  /\ [][(~status.running /\ status'.running) => nSpawned' = nSpawned + 1]_vars

\* C2: when the spawn fails at the OS level (the child emits 'error' and
\* never 'exit'), the error is recorded as status().error and
\* status().running is false afterwards.
C2_SpawnErrorNotRunning ==
  \A p \in Procs : proc[p] = "errored" => (status.error = SpawnError /\ ~status.running)

\* C3: under every interleaving of start, stop and restart calls (overlapping
\* restarts included) with child exits, every live daemon process is the one
\* the manager holds the handle of, so at most one is alive; and start()
\* spawns only while no earlier child is alive.
C3_AtMostOneDaemon ==
  /\ [](\A p \in Procs : proc[p] \in Alive => child = p)
  /\ [][nSpawned' # nSpawned => \A p \in Procs : proc[p] \notin Alive]_vars

\* two restart() calls overlapped on child 1: the first has spawned child 2,
\* the start() of the second is the next microtask
C3_Witness ==
  /\ child = 2 /\ proc[2] = "running" /\ proc[1] = "reaped"
  /\ \E r \in Reqs : IsNext("restartCont", r)

\* C6: start() with no child while the selected version is not installed
\* spawns nothing, leaves running false and the `current` symlink where it
\* points, and emits exactly one 'exit' event with code null, signal null
\* and a log tail holding only the not-installed message.
C6_NotInstalledStart ==
  [][(/\ child = NoChild
      /\ ~isVersionInstalled(getVersionFromSettings)
      /\ (CallStart \/ \E r \in Reqs : RestartCont(r)))
     => /\ UNCHANGED <<nSpawned, proc, symlink>>
        /\ ~status'.running
        /\ emitCount' = emitCount + 1
        /\ lastEmit'.code = "null" /\ lastEmit'.sig = "null"
        /\ lastEmit'.logTail = <<NotInstalledMsg(getVersionFromSettings)>>]_vars

C6_Witness ==
  /\ emitCount = 1
  /\ lastEmit = exitInfo
  /\ lastEmit.logTail = <<NotInstalledMsg("v29.1")>>
  /\ lastError = NotInstalledMsg("v29.1")
  /\ child = NoChild /\ nSpawned = 0 /\ symlink = DEFAULT_BITCOIN_KNOTS_VERSION

\* C7: start() while a child exists, and stop() while none exists, change
\* nothing: status, exitInfo and the log ring stay as they are, no event is
\* emitted, nothing is spawned and nothing is signalled.
C7_NoOpCalls ==
  [][(\/ child # NoChild /\ (CallStart \/ \E r \in Reqs : RestartCont(r))
      \/ child = NoChild /\ \E r \in Reqs : (CallStop(r) \/ CallRestart(r)))
     => UNCHANGED <<mgrVars, emitVars, osVars>>]_vars

\* restart() was called with no child: its stop() has returned at once and
\* its start() is the next microtask
C7_Witness ==
  /\ \E r \in Reqs : IsNext("restartCont", r) /\ op[r] = "restart"
  /\ child = NoChild /\ nSpawned = 0 /\ emitCount = 0
  /\ ~expectingExit /\ exitInfo = NullExitInfo /\ logRing = <<>>

\* C8: a graceful stop sets the expected-exit flag before it signals the
\* child; it completes only after the child's exit event; on completion the
\* flag is cleared and running = false, pid = null, startedAt = null; the
\* exit it waited for emits no 'exit' event and leaves exitInfo as it was.
C8_GracefulStop ==
  /\ [](\A p \in Procs : proc[p] = "terminating" => expectingExit)
  /\ [][(\E r \in Reqs : StopCont(r)) =>
          /\ \A p \in Procs : proc[p] \notin (Alive \cup {"dead"})
          /\ ~expectingExit'
          /\ ~status'.running /\ status'.pid = 0 /\ status'.startedAt = 0]_vars
  /\ [][\A p \in Procs : (ExitDispatched(p) /\ expectingExit) =>
          UNCHANGED <<emitVars, exitInfo>>]_vars

\* a child ended by SIGTERM, its stop() completed, and no event was emitted
C8_Witness ==
  /\ \E p \in Procs : proc[p] = "reaped" /\ exitStatus[p].sig = "SIGTERM"
  /\ Idle /\ \A r \in Reqs : pc[r] = "idle"
  /\ ~expectingExit /\ child = NoChild /\ startedAt = 0
  /\ emitCount = 0 /\ exitInfo = NullExitInfo


\* ============================================== settings-facade properties
\* getSettings(): the cached record, or on an empty cache the record
\* loadAndValidateSettings yields (which then fills the cache)
getSettings == IF cachedSettings # Undefined THEN Returned(cachedSettings)
               ELSE loadAndValidateSettings(store, envDefaultChain)

\* schemaForVersion(selectedVersion).parse(filtered) throws in
\* updateSettings(patch) run on the record `current`
ParseThrows(current, patch) ==
  ~SchemaAccepts(updateSettingsVersion(current, patch), updateSettingsFiltered(current, patch))

\* the step of call r in which updateSettings reaches its schema validation
\* and the merged record does not validate: at the call when the cache is
\* warm, after the load when it was cold
UpdateRejected(r) ==
  \/ /\ nCalls' # nCalls
     /\ cachedSettings # Undefined
     /\ \E patch \in Patches : ParseThrows(cachedSettings, patch) /\ UpdateSettingsCall(r, patch)
  \/ /\ pc[r] = "load" /\ pc'[r] # "load"
     /\ op[r] = "updateSettings"
     /\ LET loaded == loadAndValidateSettings(store, envDefaultChain) IN
        loaded.ok /\ ParseThrows(loaded.val, arg[r])
     /\ LoadSettings(r)

\* C4: when updateSettings(patch) is rejected by schema validation, that call
\* writes neither the settings store nor the managed config file nor the
\* user-owned config file nor the value of the in-memory cache (what
\* getSettings yields is the same before and after), and the daemon is
\* neither stopped nor restarted.
C4_RejectedUpdateWritesNothing ==
  [][\A r \in Reqs : UpdateRejected(r) =>
        /\ UNCHANGED <<store, umbrelConf, bitcoinConf>>
        /\ getSettings' = getSettings
        /\ UNCHANGED <<mgrVars, emitVars, osVars, microtasks>>
        /\ pc'[r] = "idle"]_vars

\* C4, amended: when updateSettings(patch) is rejected by schema validation,
\* that call writes neither the settings store nor the managed config file
\* nor the user-owned config file, the daemon is neither stopped nor
\* restarted and the call has ended; the in-memory cache is written only by
\* a call that found it empty when it started, and then with the validated
\* record loaded from the settings store, never with the rejected one.
C4_RejectedUpdateKeepsFilesAndDaemon ==
  [][\A r \in Reqs : UpdateRejected(r) =>
        /\ UNCHANGED <<store, umbrelConf, bitcoinConf>>
        /\ \/ UNCHANGED cachedSettings
           \/ /\ pc[r] = "load"
              /\ cachedSettings' = loadAndValidateSettings(store, envDefaultChain).val
        /\ UNCHANGED <<mgrVars, emitVars, osVars, microtasks>>
        /\ pc'[r] = "idle"]_vars

\* the daemon started at boot is still the running one after an
\* updateSettings call that loaded the record and was then rejected
C4_Witness ==
  /\ booted /\ nCalls = 2 /\ storeWriter = "boot"
  /\ cachedSettings # Undefined
  /\ \A r \in Reqs : pc[r] = "idle"
  /\ nSpawned = 1 /\ child = 1 /\ proc[1] = "running"

\* C5: once ensureConfig, updateSettings or restoreDefaults has written the
\* settings store, the stored record validates against
\* schemaForVersion(v) for v the record's own 'version', after any sequence
\* of such calls.
C5_StoredRecordValid ==
  storeWriter # "none" =>
     /\ "version" \in DOMAIN store
     /\ SchemaAccepts(store["version"], store)

\* the derived-consistency rules on a record
DerivedConsistent(s) ==
  /\ s["peerblockfilters"] => s["blockfilterindex"]
  /\ s["prune"] > 0 => ~s["txindex"]
  /\ s["proxy"] => (Includes(s["onlynet"], "clearnet") /\ Includes(s["onlynet"], "tor"))

\* C10: every record updateSettings or ensureConfig persists satisfies the
\* derived-consistency rules: peerblockfilters implies blockfilterindex,
\* prune > 0 implies txindex off, proxy implies onlynet holds both clearnet
\* and tor.
C10_PersistedRecordConsistent ==
  storeWriter \in {"updateSettings", "boot"} => DerivedConsistent(store)

\* onlynet = ['tor'] with proxy = true was sent and is stored with proxy off
C10_Witness ==
  /\ storeWriter = "updateSettings"
  /\ store["onlynet"] = <<"tor">>
  /\ ~store["proxy"]


\* ================================================== derivation properties
\* C9: derivation is idempotent: for every record s a supported version's
\* schema accepts, applyDerivedSettings(applyDerivedSettings(s)) equals
\* applyDerivedSettings(s).
C9_DeriveIdempotent ==
  dTwice # NoRecord => dTwice = dOnce

\* a record the first derivation changed (a rule fired) was derived twice
C9_Witness ==
  /\ dTwice # NoRecord
  /\ dOnce # dIn
  /\ dIn["prune"] > 0 /\ dIn["txindex"]


\* ================================================== key-set properties
\* C11: after a successful updateSettings or ensureConfig, the key set of
\* the persisted record is exactly the key set of the materialized metadata
\* of the resolved version: every key of the version has a value and no
\* unknown or stale key survives, whatever the patch or the previous store
\* carried.
C11_PersistedKeysAreVersionKeys ==
  storeWriter \in {"updateSettings", "boot"} =>
     /\ "version" \in DOMAIN store
     /\ DOMAIN store = DOMAIN settingsMetadataForVersion(resolveVersion(store["version"]))

\* a patch with a key no version defines has been persisted
C11_Witness ==
  /\ storeWriter = "updateSettings"
  /\ \E r \in Reqs : /\ pc[r] = "write_conf"
                     /\ "bogus" \in DOMAIN arg[r]
                     /\ store = merged[r]
  /\ "bogus" \notin DOMAIN store


\* ==================================================== catalog properties
\* the metadata registry on its own: a catalog whose entries carry any
\* combination of version markers, materialized for a supported version
MaxEntries == 2    \* entries of the catalogs tried

VersionMarkers == {NoVersion} \cup
  {AVAILABLE_BITCOIN_KNOTS_VERSIONS[i] : i \in DOMAIN AVAILABLE_BITCOIN_KNOTS_VERSIONS}

EntryKey(i) == "entry" \o ToString(i)

Catalogs ==
  [ {EntryKey(i) : i \in 1..MaxEntries} ->
      [kind : {"toggle"}, default : {FALSE},
       introducedIn : VersionMarkers, removedIn : VersionMarkers] ]

\* everything but the function arguments and results, at rest
Quiescent ==
  /\ store = NoRecord
  /\ installed = {"v29.2", "v29.1"}
  /\ envDefaultChain = ""
  /\ bitcoinConf = <<"">>
  /\ InitRest

machineVars == <<mgrVars, emitVars, osVars, loopVars, cfgVars>>

\* ---------------------------------------------------- the shipped catalog
\* a JavaScript number of the catalog as a fixed-point value
\* giga * 10^9 + unit + milli / 1000  (0 <= unit < 10^9, 0 <= milli < 1000)
Num(g, u, m) == [giga |-> g, unit |-> u, milli |-> m]

NumLeq(a, b) ==
  \/ a.giga < b.giga
  \/ a.giga = b.giga /\ a.unit < b.unit
  \/ a.giga = b.giga /\ a.unit = b.unit /\ a.milli <= b.milli

\* Number.isInteger
IsInteger(a) == a.milli = 0

\* every entry of settingsMetadata with the fields the schema and the
\* defaults read (kind, default, min, max, step, options, requireAtLeastOne);
\* no entry carries introducedIn, removedIn or versionOverrides
settingsMetadataAll ==
  [
    onlynet |-> [kind |-> "multi", options |-> {"clearnet", "tor", "i2p"},
        default |-> <<"clearnet", "tor", "i2p">>, requireAtLeastOne |-> TRUE],
    proxy |-> [kind |-> "toggle", default |-> FALSE],
    listen |-> [kind |-> "multi", options |-> {"clearnet", "tor", "i2p"},
        default |-> <<>>, requireAtLeastOne |-> FALSE],
    peerblockfilters |-> [kind |-> "toggle", default |-> TRUE],
    blockfilterindex |-> [kind |-> "toggle", default |-> TRUE],
    peerbloomfilters |-> [kind |-> "toggle", default |-> FALSE],
    bantime |-> [kind |-> "number", default |-> Num(0, 86400, 0), step |-> Num(0, 1, 0)],
    maxconnections |-> [kind |-> "number", default |-> Num(0, 125, 0), step |-> Num(0, 1,
        0)],
    maxreceivebuffer |-> [kind |-> "number", default |-> Num(0, 5000, 0), step |-> Num(0,
        1, 0)],
    maxsendbuffer |-> [kind |-> "number", default |-> Num(0, 5000, 0), step |-> Num(0, 1,
        0)],
    peertimeout |-> [kind |-> "number", default |-> Num(0, 60, 0), min |-> Num(0, 1, 0),
        step |-> Num(0, 1, 0)],
    timeout |-> [kind |-> "number", default |-> Num(0, 5000, 0), min |-> Num(0, 1, 0),
        step |-> Num(0, 1, 0)],
    maxuploadtarget |-> [kind |-> "number", default |-> Num(0, 0, 0), min |-> Num(0, 0,
        0), step |-> Num(0, 1, 0)],
    dbcache |-> [kind |-> "number", default |-> Num(0, 450, 0), min |-> Num(0, 4, 0),
        step |-> Num(0, 1, 0)],
    prune |-> [kind |-> "number", default |-> Num(0, 0, 0), min |-> Num(0, 0, 0),
        step |-> Num(0, 1, 0)],
    txindex |-> [kind |-> "toggle", default |-> TRUE],
    datacarrier |-> [kind |-> "toggle", default |-> TRUE],
    datacarriersize |-> [kind |-> "number", default |-> Num(0, 42, 0)],
    permitbaremultisig |-> [kind |-> "toggle", default |-> FALSE],
    rejectparasites |-> [kind |-> "toggle", default |-> TRUE],
    rejecttokens |-> [kind |-> "toggle", default |-> FALSE],
    permitbarepubkey |-> [kind |-> "toggle", default |-> FALSE],
    permitbaredatacarrier |-> [kind |-> "toggle", default |-> FALSE],
    datacarriercost |-> [kind |-> "number", default |-> Num(0, 1, 0)],
    acceptnonstddatacarrier |-> [kind |-> "toggle", default |-> FALSE],
    maxscriptsize |-> [kind |-> "number", default |-> Num(0, 1650, 0)],
    blockmaxsize |-> [kind |-> "number", default |-> Num(0, 3985000, 0)],
    blockmaxweight |-> [kind |-> "number", default |-> Num(0, 3985000, 0)],
    blockreconstructionextratxn |-> [kind |-> "number", default |-> Num(0, 32768, 0)],
    blockreconstructionextratxnsize |-> [kind |-> "number", default |-> Num(0, 10, 0)],
    coinstatsindex |-> [kind |-> "toggle", default |-> FALSE],
    maxmempool |-> [kind |-> "number", default |-> Num(0, 300, 0)],
    blockmintxfee |-> [kind |-> "number", default |-> Num(0, 1, 0), min |-> Num(0, 0, 0),
        max |-> Num(2100, 0, 0), step |-> Num(0, 0, 1)],
    minrelaytxfee |-> [kind |-> "number", default |-> Num(0, 1, 0), min |-> Num(0, 0, 0),
        max |-> Num(2100, 0, 0), step |-> Num(0, 1, 0)],
    incrementalrelayfee |-> [kind |-> "number", default |-> Num(0, 1, 0), min |-> Num(0,
        0, 0), max |-> Num(2100, 0, 0), step |-> Num(0, 0, 1)],
    mempoolexpiry |-> [kind |-> "number", default |-> Num(0, 336, 0), step |-> Num(0, 1,
        0)],
    persistmempool |-> [kind |-> "toggle", default |-> TRUE],
    maxorphantx |-> [kind |-> "number", default |-> Num(0, 100, 0), step |-> Num(0, 1,
        0)],
    rest |-> [kind |-> "toggle", default |-> FALSE],
    rpcworkqueue |-> [kind |-> "number", default |-> Num(0, 128, 0), min |-> Num(0, 1,
        0), step |-> Num(0, 1, 0)],
    datum |-> [kind |-> "toggle", default |-> TRUE],
    version |-> [kind |-> "select", options |-> VERSION_CHOICES, default |-> LATEST],
    chain |-> [kind |-> "select", options |-> {"main", "test", "testnet4", "signet",
        "regtest"}, default |-> "main"] ]

\* DefaultValuesForVersion: the default of every key of the materialized metadata
DefaultValuesOf(metadata) == [key \in DOMAIN metadata |-> metadata[key].default]

\* faulty variant: the non-empty rule applied to every multi-select
zodAccepts_alwaysNonEmpty(meta, v) ==
  CASE meta.kind = "number" ->
         /\ ("step" \notin DOMAIN meta \/ IsInteger(meta.step)) => IsInteger(v)
         /\ "min" \in DOMAIN meta => NumLeq(meta.min, v)
         /\ "max" \in DOMAIN meta => NumLeq(v, meta.max)
    [] meta.kind = "toggle" -> v \in BOOLEAN
    [] meta.kind = "multi"  -> /\ \A i \in DOMAIN v : v[i] \in meta.options
                               /\ Len(v) > 0
    [] meta.kind = "select" -> v \in meta.options

\* the zod validator buildSettingsSchema builds for one entry, applied to v
zodAccepts(meta, v) ==
  CASE meta.kind = "number" ->
         /\ ("step" \notin DOMAIN meta \/ IsInteger(meta.step)) => IsInteger(v)
         /\ "min" \in DOMAIN meta => NumLeq(meta.min, v)
         /\ "max" \in DOMAIN meta => NumLeq(v, meta.max)
    [] meta.kind = "toggle" -> v \in BOOLEAN
    [] meta.kind = "multi"  ->
         /\ \A i \in DOMAIN v : v[i] \in meta.options
         /\ (IF "requireAtLeastOne" \in DOMAIN meta THEN meta.requireAtLeastOne ELSE TRUE)
               => Len(v) > 0
    [] meta.kind = "select" -> v \in meta.options

\* buildSettingsSchema(metadata).parse(rec) does not throw
buildSettingsSchema(metadata, rec) ==
  \A key \in DOMAIN metadata :
     /\ key \in DOMAIN rec
     /\ zodAccepts(metadata[key], rec[key])

\* schemaForVersion(version) over the shipped catalog
schemaForVersion(version, rec) ==
  buildSettingsSchema(MaterializeCatalog(settingsMetadataAll, resolveVersion(version)), rec)

InitCatalog ==
  /\ dIn \in [version : VersionMarkers \ {NoVersion}, catalog : Catalogs]
  /\ dOnce = NoRecord
  /\ dTwice = NoRecord
  /\ Quiescent

Materialize ==
  /\ dOnce = NoRecord
  /\ dOnce' = [metadata |-> MaterializeCatalog(dIn.catalog, dIn.version)]
  /\ UNCHANGED <<dIn, dTwice, machineVars>>

\* the defaults of a version choice run through the schema of that choice
ValidateDefaults ==
  /\ dTwice = NoRecord
  /\ \E selected \in VERSION_CHOICES :
       LET defaults == DefaultValuesOf(
                         MaterializeCatalog(settingsMetadataAll, resolveVersion(selected)))
       IN dTwice' = [selected |-> selected,
                     keys     |-> DOMAIN defaults,
                     accepted |-> schemaForVersion(selected, defaults)]
  /\ UNCHANGED <<dIn, dOnce, machineVars>>

NextCatalog == Materialize \/ ValidateDefaults

SpecCatalog == InitCatalog /\ [][NextCatalog]_vars

\* v is w or a newer version: it comes no later in the newest-first list
SameOrNewer(v, w) ==
  \E i, j \in DOMAIN AVAILABLE_BITCOIN_KNOTS_VERSIONS :
     /\ AVAILABLE_BITCOIN_KNOTS_VERSIONS[i] = v
     /\ AVAILABLE_BITCOIN_KNOTS_VERSIONS[j] = w
     /\ i <= j

\* C13: for every supported target version v and every catalog entry e, e's
\* key is in settingsMetadataForVersion(v) if and only if (e has no
\* introducedIn, or v is introducedIn or newer) and (e has no removedIn, or v
\* is strictly older than removedIn), newer and older by position in the
\* newest-first version list.
C13_EntryPresentIffInRange ==
  dOnce # NoRecord =>
    \A key \in DOMAIN dIn.catalog :
       LET e == dIn.catalog[key] IN
       key \in DOMAIN dOnce.metadata <=>
          /\ (e.introducedIn = NoVersion \/ SameOrNewer(dIn.version, e.introducedIn))
          /\ (e.removedIn = NoVersion \/ ~SameOrNewer(dIn.version, e.removedIn))

\* the older version was materialized: an entry introduced in the newer one
\* is skipped, an entry removed in the newer one is kept
C13_Witness ==
  /\ dOnce # NoRecord
  /\ dIn.version = "v29.1"
  /\ dIn.catalog[EntryKey(1)].introducedIn = "v29.2"
  /\ dIn.catalog[EntryKey(2)].removedIn = "v29.2"
  /\ dIn.catalog[EntryKey(2)].introducedIn = NoVersion
  /\ DOMAIN dOnce.metadata = {EntryKey(2)}

\* C14: for every supported version v, and for the 'latest' selector, the
\* record DefaultValuesForVersion(v) is accepted by schemaForVersion(v): every
\* default meets the integer-step, min/max, option-set and non-empty
\* constraints of its entry.
C14_DefaultsValidate ==
  dTwice # NoRecord => dTwice.accepted

\* the defaults of 'latest' were validated, over every key of the catalog,
\* the empty multi-select default and the bounded fee rates among them
C14_Witness ==
  /\ dTwice # NoRecord
  /\ dTwice.selected = LATEST
  /\ dTwice.keys = DOMAIN settingsMetadataAll
  /\ settingsMetadataAll["listen"].default = <<>>
  /\ "max" \in DOMAIN settingsMetadataAll["blockmintxfee"]
  /\ dTwice.accepted


\* ==================================================== the compiled config
\* generateConfLines on its own. A line `key=value` is held as its key and the
\* sequence of tokens of its value: one token per character for a formatted
\* number, one token per environment value or literal otherwise. The keys hold
\* no '=', so line.startsWith(key + '=') is the test line.key = key.
Directive(key, value) == [key |-> key, value |-> value]
RawLine(tokens) == [raw |-> tokens]
StartsWith(line, key) == "key" \in DOMAIN line /\ line.key = key
Without(lines, key) == SelectSeq(lines, LAMBDA l : ~StartsWith(l, key))

\* process.env[name], as a token
Env(name) == "${" \o name \o "}"

\* String(n) of a non-negative integer, one token per digit
RECURSIVE Digits(_)
Digits(n) == IF n < 10 THEN <<ToString(n)>> ELSE Digits(n \div 10) \o <<ToString(n % 10)>>

\* the last w digits of n, with leading zeros
RECURSIVE Padded(_, _)
Padded(n, w) == IF w = 0 THEN <<>> ELSE Padded(n \div 10, w - 1) \o <<ToString(n % 10)>>

\* fee rates are held in units of 1/FeeScale sat/vB (FeeDigits decimals), so
\* that rates below the 8th decimal of BTC/kvB exist
FeeDigits == 4
FeeScale == 10000
FeeKeys == {"minrelaytxfee", "blockmintxfee"}

\* the settings whose catalog entry declares unit: 'sat/vB'
SatPerVbKeys == {"blockmintxfee", "minrelaytxfee", "incrementalrelayfee"}

\* digits with the trailing zeros dropped
RECURSIVE TrimZeros(_)
TrimZeros(ds) ==
  IF ds # <<>> /\ ds[Len(ds)] = "0" THEN TrimZeros(SubSeq(ds, 1, Len(ds) - 1)) ELSE ds

\* String(v) of the fee rate v = k / FeeScale
FeeToString(k) ==
  LET frac == TrimZeros(Padded(k % FeeScale, FeeDigits)) IN
  Digits(k \div FeeScale) \o (IF frac = <<>> THEN <<>> ELSE <<".">> \o frac)

\* (satPerVb * 1e-5).toFixed(8) of the fee rate k / FeeScale: the value is
\* k * 10^-9, its closest multiple of 10^-8 is n (the larger of two)
convertSatPerVbToBtcPerKb(k) ==
  LET n == (k + 5) \div 10 IN
  Digits(n \div 100000000) \o <<".">> \o Padded(n % 100000000, 8)

\* Math.round(x / 1000) for x >= 0
RoundThousandths(x) == (x + 500) \div 1000

\* 1 GB = 953.674 MiB, in thousandths
MiBPerGBThousandths == 953674

\* the keys of a record in the order Object.keys yields them: the order of the
\* catalog, which the spread of the defaults gives every record
KeyOrder ==
  <<"onlynet", "proxy", "listen", "dbcache", "prune", "txindex",
    "blockmintxfee", "minrelaytxfee", "incrementalrelayfee", "datum", "version", "chain">>

\* faulty variant: no key withheld from the native config
NON_BITCOIN_CONF_KEYS_none == {}

NON_BITCOIN_CONF_KEYS == {"version"}

onlynetMap(n) ==
  CASE n = "clearnet" -> <<Directive("onlynet", <<"ipv4">>), Directive("onlynet", <<"ipv6">>)>>
    [] n = "tor"      -> <<Directive("onlynet", <<"onion">>)>>
    [] n = "i2p"      -> <<Directive("onlynet", <<"i2p">>)>>
    [] OTHER          -> <<>>

RECURSIVE onlynetLines(_)
onlynetLines(nets) ==
  IF nets = <<>> THEN <<>> ELSE onlynetMap(Head(nets)) \o onlynetLines(Tail(nets))

flag(enabled) == IF enabled THEN <<"1">> ELSE <<"0">>

\* the default branch of the switch: boolean as 0|1, number and string as is
defaultLine(key, value) ==
  LET kind == settingsMetadataAll[key].kind IN
  CASE kind = "toggle" -> <<Directive(key, flag(value))>>
    [] kind = "number" -> <<Directive(key, IF key \in SatPerVbKeys THEN FeeToString(value)
                                                             ELSE Digits(value))>>
    [] kind = "select" -> <<Directive(key, <<value>>)>>
    [] OTHER           -> <<>>

\* the lines one key of the record contributes to the base pass
baseLinesOfKey(key, value) ==
  IF key \in NON_BITCOIN_CONF_KEYS THEN <<>>
  ELSE CASE key = "onlynet" -> onlynetLines(value)
         [] key = "listen"  -> <<Directive("listen", <<"1">>),
                                 Directive("listenonion", flag(Includes(value, "tor"))),
                                 Directive("i2pacceptincoming", flag(Includes(value, "i2p")))>>
         [] key = "datum"   -> \* no break: falls through to the default branch
              (IF value = TRUE
               THEN <<Directive("blocknotify",
                                <<"curl -s -m 5 http://datum_datum_1:21000/NOTIFY">>)>>
               ELSE <<>>) \o defaultLine(key, value)
         [] OTHER           -> defaultLine(key, value)

RECURSIVE baseLinesFrom(_, _)
baseLinesFrom(settings, i) ==
  IF i > Len(KeyOrder) THEN <<>>
  ELSE (IF KeyOrder[i] \in DOMAIN settings
        THEN baseLinesOfKey(KeyOrder[i], settings[KeyOrder[i]])
        ELSE <<>>) \o baseLinesFrom(settings, i + 1)

generateBaseConfLines(settings) == baseLinesFrom(settings, 1)

\* faulty variant: the base-pass proxy line is kept
handleTorProxy_noFilter(lines, settings) ==
  IF settings["proxy"]
  THEN Append(lines, Directive("proxy", <<Env("TOR_HOST"), ":", Env("TOR_SOCKS_PORT")>>))
  ELSE lines

handleTorProxy(lines, settings) ==
  LET withoutProxy == Without(lines, "proxy") IN
  IF settings["proxy"]
  THEN Append(withoutProxy, Directive("proxy", <<Env("TOR_HOST"), ":", Env("TOR_SOCKS_PORT")>>))
  ELSE withoutProxy

handleTor(lines, settings) ==
  LET torOut == Includes(settings["onlynet"], "tor")
      torIn  == Includes(settings["listen"], "tor")
      l1 == IF torOut \/ torIn
            THEN Append(Without(lines, "onion"),
                        Directive("onion", <<Env("TOR_HOST"), ":", Env("TOR_SOCKS_PORT")>>))
            ELSE lines
  IN IF torIn
     THEN Without(l1, "torcontrol") \o
          <<Directive("torcontrol", <<Env("TOR_HOST"), ":", Env("TOR_CONTROL_PORT")>>),
            Directive("torpassword", <<Env("TOR_CONTROL_PASSWORD")>>)>>
     ELSE l1

handleI2P(lines, settings) ==
  LET i2pOut == Includes(settings["onlynet"], "i2p")
      i2pIn  == Includes(settings["listen"], "i2p")
  IN IF i2pOut \/ i2pIn
     THEN Append(Without(lines, "i2psam"),
                 Directive("i2psam", <<Env("I2P_HOST"), ":", Env("I2P_SAM_PORT")>>))
     ELSE lines

\* faulty variant: the value truncated instead of rounded
handlePruneConversion_floor(lines, settings) ==
  IF settings["prune"] > 0
  THEN Append(Without(lines, "prune"),
              Directive("prune", Digits((settings["prune"] * MiBPerGBThousandths) \div 1000)))
  ELSE lines

handlePruneConversion(lines, settings) ==
  IF settings["prune"] > 0
  THEN Append(Without(lines, "prune"),
              Directive("prune",
                        Digits(RoundThousandths(settings["prune"] * MiBPerGBThousandths))))
  ELSE lines

\* faulty variant: the base-pass lines of the two keys are kept
handleFeeRateConversion_noFilter(lines, settings) ==
  LET l1 == IF "minrelaytxfee" \in DOMAIN settings
            THEN Append(lines, Directive("minrelaytxfee",
                                         convertSatPerVbToBtcPerKb(settings["minrelaytxfee"])))
            ELSE lines
  IN IF "blockmintxfee" \in DOMAIN settings
     THEN Append(l1, Directive("blockmintxfee",
                               convertSatPerVbToBtcPerKb(settings["blockmintxfee"])))
     ELSE l1

handleFeeRateConversion(lines, settings) ==
  LET updatedLines == Without(Without(lines, "minrelaytxfee"), "blockmintxfee")
      l1 == IF "minrelaytxfee" \in DOMAIN settings
            THEN Append(updatedLines,
                        Directive("minrelaytxfee",
                                  convertSatPerVbToBtcPerKb(settings["minrelaytxfee"])))
            ELSE updatedLines
  IN IF "blockmintxfee" \in DOMAIN settings
     THEN Append(l1, Directive("blockmintxfee",
                               convertSatPerVbToBtcPerKb(settings["blockmintxfee"])))
     ELSE l1

\* process.env[name] || fallback
EnvOr(env, name, fallback) == IF name \in env THEN Env(name) ELSE fallback

appendRpcAllowIps(lines, env) ==
  (IF "APPS_SUBNET" \in env
   THEN Append(lines, Directive("rpcallowip", <<Env("APPS_SUBNET")>>))
   ELSE lines) \o <<Directive("rpcallowip", <<"127.0.0.1">>)>>

appendZmqPubs(lines, env) ==
  lines \o
  <<Directive("zmqpubrawblock", <<"tcp://0.0.0.0:", EnvOr(env, "ZMQ_RAWBLOCK_PORT", "28332")>>),
    Directive("zmqpubrawtx", <<"tcp://0.0.0.0:", EnvOr(env, "ZMQ_RAWTX_PORT", "28333")>>),
    Directive("zmqpubhashblock", <<"tcp://0.0.0.0:", EnvOr(env, "ZMQ_HASHBLOCK_PORT", "28334")>>),
    Directive("zmqpubsequence", <<"tcp://0.0.0.0:", EnvOr(env, "ZMQ_SEQUENCE_PORT", "28335")>>),
    Directive("zmqpubhashtx", <<"tcp://0.0.0.0:", EnvOr(env, "ZMQ_HASHTX_PORT", "28336")>>)>>

\* the salt is random and the hash follows from it: one token each
appendRpcAuth(lines, env) ==
  Append(lines, Directive("rpcauth", <<EnvOr(env, "RPC_USER", "umbrel"), ":", "salt", "$", "hash">>))

appendNetworkStanza(lines, settings, env) ==
  LET net == IF "chain" \in DOMAIN settings THEN settings["chain"] ELSE "main"
      p2pPort == EnvOr(env, "P2P_PORT", "8333")
  IN lines \o
     <<RawLine(<<>>), RawLine(<<"[", net, "]">>),
       Directive("port", <<p2pPort>>),
       Directive("bind", <<"0.0.0.0:", p2pPort>>)>> \o
     (IF "P2P_WHITEBIND_PORT" \in env
      THEN <<Directive("whitebind", <<"0.0.0.0:", Env("P2P_WHITEBIND_PORT")>>)>>
      ELSE <<>>) \o
     <<Directive("bind", <<Env("BITCOIND_IP"), ":", EnvOr(env, "TOR_PORT", "8334"), "=onion">>),
       Directive("rpcport", <<EnvOr(env, "RPC_PORT", "8332")>>),
       Directive("rpcbind", <<Env("BITCOIND_IP")>>),
       Directive("rpcbind", <<"127.0.0.1">>)>>

generateConfLines(settings, env) ==
  LET l0 == generateBaseConfLines(settings)
      l1 == handleTorProxy(l0, settings)
      l2 == handleTor(l1, settings)
      l3 == handleI2P(l2, settings)
      l4 == handlePruneConversion(l3, settings)
      l5 == handleFeeRateConversion(l4, settings)
      l6 == appendRpcAllowIps(l5, env)
      l7 == appendZmqPubs(l6, env)
      l8 == appendRpcAuth(l7, env)
  IN appendNetworkStanza(l8, settings, env)

\* the records compiled: every value the conversions and the dependent rules
\* read, within the schema
OnlynetChoices == {<<"clearnet", "tor", "i2p">>, <<"clearnet">>, <<"tor">>}
ListenChoices == {<<>>, <<"tor">>, <<"clearnet", "i2p">>}
BlockMinTxFeeChoices == {0, 4, 6, 15000, 50000}
MinRelayTxFeeChoices == {0, 10000, 50000}
IncrementalRelayFeeChoices == {10000, 50000}
OptionalEnv ==
  {"APPS_SUBNET", "P2P_WHITEBIND_PORT", "P2P_PORT", "TOR_PORT", "RPC_PORT", "RPC_USER",
   "ZMQ_RAWBLOCK_PORT", "ZMQ_RAWTX_PORT", "ZMQ_HASHBLOCK_PORT", "ZMQ_SEQUENCE_PORT",
   "ZMQ_HASHTX_PORT"}

ConfSettings ==
  [ onlynet : OnlynetChoices, proxy : BOOLEAN, listen : ListenChoices,
    dbcache : {450}, prune : 0..MaxPrune, txindex : {TRUE},
    blockmintxfee : BlockMinTxFeeChoices, minrelaytxfee : MinRelayTxFeeChoices,
    incrementalrelayfee : IncrementalRelayFeeChoices,
    datum : BOOLEAN, version : VERSION_CHOICES, chain : {"main", "signet"} ]

InitConf ==
  /\ dIn \in [settings : ConfSettings, env : {{}, OptionalEnv}]
  /\ dOnce = NoRecord
  /\ dTwice = NoRecord
  /\ Quiescent

\* the base pass alone, then the whole compilation
CompileBase ==
  /\ dOnce = NoRecord
  /\ dOnce' = [lines |-> generateBaseConfLines(dIn.settings)]
  /\ UNCHANGED <<dIn, dTwice, machineVars>>

Compile ==
  /\ dTwice = NoRecord
  /\ dTwice' = [lines |-> generateConfLines(dIn.settings, dIn.env)]
  /\ UNCHANGED <<dIn, dOnce, machineVars>>

NextConf == CompileBase \/ Compile

SpecConf == InitConf /\ [][NextConf]_vars

\* the lines of a compiled list that are directives of `key`
DirectivesOf(lines, key) == SelectSeq(lines, LAMBDA l : StartsWith(l, key))

\* C12: for every settings record, the compiled directive list written to
\* the managed config holds no directive for the 'version' key, neither after
\* the base pass nor after the post-passes and the fixed tail.
C12_NoVersionDirective ==
  /\ dOnce # NoRecord => DirectivesOf(dOnce.lines, "version") = <<>>
  /\ dTwice # NoRecord => DirectivesOf(dTwice.lines, "version") = <<>>

\* a record pinned to a version was compiled, and its other keys were written
C12_Witness ==
  /\ dIn.settings["version"] = "v29.1"
  /\ dOnce # NoRecord
  /\ dTwice # NoRecord
  /\ DirectivesOf(dOnce.lines, "chain") # <<>>
  /\ DirectivesOf(dTwice.lines, "rpcauth") # <<>>

\* reading a written value back: the number a sequence of digit tokens denotes
DigitTokens == {ToString(d) : d \in 0..9}
IsNumeral(ds) == ds # <<>> /\ \A i \in DOMAIN ds : ds[i] \in DigitTokens
DigitValue(t) == CHOOSE d \in 0..9 : ToString(d) = t

RECURSIVE NumeralValue(_)
NumeralValue(ds) ==
  IF ds = <<>> THEN 0
  ELSE 10 * NumeralValue(SubSeq(ds, 1, Len(ds) - 1)) + DigitValue(ds[Len(ds)])

Abs(x) == IF x < 0 THEN -x ELSE x

\* C17: for every settings record with prune = p > 0 (GB) the compiled config
\* holds exactly one prune directive, whose value is the integer nearest to
\* p * 953.674 (1907 for p = 2); for p = 0 the only prune directive is prune=0.
C17_PruneConverted ==
  dTwice # NoRecord =>
    LET p == dIn.settings["prune"]
        ds == DirectivesOf(dTwice.lines, "prune")
    IN /\ Len(ds) = 1
       /\ p = 0 => ds[1].value = <<"0">>
       /\ p > 0 => /\ IsNumeral(ds[1].value)
                   /\ 2 * Abs(1000 * NumeralValue(ds[1].value) - MiBPerGBThousandths * p) <= 1000
       /\ p = 2 => ds[1].value = <<"1", "9", "0", "7">>

\* prune = 2 was compiled: the base pass wrote prune=2, the whole pass 1907
C17_Witness ==
  /\ dIn.settings["prune"] = 2
  /\ dOnce # NoRecord
  /\ dTwice # NoRecord
  /\ DirectivesOf(dOnce.lines, "prune") = <<Directive("prune", <<"2">>)>>
  /\ DirectivesOf(dTwice.lines, "prune") = <<Directive("prune", <<"1", "9", "0", "7">>)>>

\* the value is written with exactly 8 decimals and is the multiple of 10^-8
\* nearest to k / FeeScale * 10^-5
IsConvertedFee(v, k) ==
  /\ Len(v) >= 10
  /\ v[Len(v) - 8] = "."
  /\ IsNumeral(SubSeq(v, 1, Len(v) - 9))
  /\ IsNumeral(SubSeq(v, Len(v) - 7, Len(v)))
  /\ LET n == NumeralValue(SubSeq(v, 1, Len(v) - 9)) * 100000000
              + NumeralValue(SubSeq(v, Len(v) - 7, Len(v)))
     IN Abs(10 * n - k) <= 5

\* C18: for every settings record, the compiled config's blockmintxfee and
\* minrelaytxfee directives carry the stored sat/vB value multiplied by 1e-5
\* and written with exactly 8 decimals ("0.00005000" for 5), and the
\* unconverted value the base pass wrote for these keys does not appear.
C18_FeeRatesConverted ==
  dTwice # NoRecord =>
    \A key \in FeeKeys :
       LET k == dIn.settings[key]
           ds == DirectivesOf(dTwice.lines, key)
       IN /\ Len(ds) = 1
          /\ IsConvertedFee(ds[1].value, k)
          /\ \A i \in DOMAIN ds : ds[i].value # FeeToString(k)
          /\ k = 5 * FeeScale =>
               ds[1].value = <<"0", ".", "0", "0", "0", "0", "5", "0", "0", "0">>

\* 5 sat/vB was compiled for both keys: the base pass wrote 5, the whole pass
\* 0.00005000
C18_Witness ==
  /\ dIn.settings["blockmintxfee"] = 5 * FeeScale
  /\ dIn.settings["minrelaytxfee"] = 5 * FeeScale
  /\ dOnce # NoRecord
  /\ dTwice # NoRecord
  /\ DirectivesOf(dOnce.lines, "blockmintxfee") = <<Directive("blockmintxfee", <<"5">>)>>
  /\ DirectivesOf(dTwice.lines, "minrelaytxfee") =
       <<Directive("minrelaytxfee", <<"0", ".", "0", "0", "0", "0", "5", "0", "0", "0">>)>>


\* ==================================================== the diagnostic ring
\* recordLine on its own, over more lines than the ring holds: lines are
\* numbered as they are recorded, and a successful start empties the ring
MaxOverflow == 2   \* lines recorded beyond RING_MAX
MaxStarts == 1     \* successful starts while lines are recorded

RingLine(i) == "line " \o ToString(i)

InitRing ==
  /\ dIn = NoRecord
  /\ dOnce = [ring |-> <<>>, count |-> 0, total |-> 0, starts |-> 0]
  /\ dTwice = NoRecord
  /\ Quiescent

\* handleLine -> recordLine on the next line of output
RecordLine ==
  /\ dOnce.count < RING_MAX + MaxOverflow
  /\ dOnce' = [dOnce EXCEPT !.ring = recordLine(dOnce.ring, RingLine(dOnce.total + 1)),
                            !.count = dOnce.count + 1,
                            !.total = dOnce.total + 1]
  /\ UNCHANGED <<dIn, dTwice, machineVars>>

\* start(), past the install check: this.logRing.length = 0; taken after the
\* first line, just below the capacity and just above it
ClearOnStart ==
  /\ dOnce.starts < MaxStarts
  /\ dOnce.count \in {1, RING_MAX - 1, RING_MAX + 1}
  /\ dOnce' = [dOnce EXCEPT !.ring = <<>>, !.count = 0, !.starts = dOnce.starts + 1]
  /\ UNCHANGED <<dIn, dTwice, machineVars>>

NextRing == RecordLine \/ ClearOnStart

SpecRing == InitRing /\ [][NextRing]_vars

Min(a, b) == IF a < b THEN a ELSE b

\* C15: the diagnostic ring has capacity RING_MAX = 200: after any sequence
\* of lines recorded since the last successful start it holds the last
\* min(count, RING_MAX) of them in their original order; after RING_MAX + k
\* lines it is exactly the last RING_MAX lines.
C15_RingHoldsLastLines ==
  LET held == Min(dOnce.count, RING_MAX) IN
  /\ Len(dOnce.ring) = held
  /\ \A i \in 1..held : dOnce.ring[i] = RingLine(dOnce.total - held + i)

\* more lines than the ring holds were recorded since a start that followed
\* earlier output: the ring is full and begins after the dropped lines
C15_Witness ==
  /\ dOnce.starts = 1
  /\ dOnce.count = RING_MAX + MaxOverflow
  /\ dOnce.total > dOnce.count
  /\ Len(dOnce.ring) = RING_MAX
  /\ dOnce.ring[1] = RingLine(dOnce.total - RING_MAX + 1)
  /\ dOnce.ring[RING_MAX] = RingLine(dOnce.total)


\* ==================================================== the exit stream
\* wsExitStream(socket), called with the socket of a client that has
\* connected: one snapshot, then the handler is registered on 'exit' and its
\* removal on the socket's 'close'
wsExitStream(s) ==
  /\ recv' = send(sock', s, [type |-> "snapshot", running |-> status.running, exit |-> exitInfo],
                  recv)
  /\ handlers' = handlers \cup {s}

\* a client connects: the route hands its open socket to wsExitStream
Connect(s) ==
  /\ Idle
  /\ sock[s] = "none"
  /\ sock' = [sock EXCEPT ![s] = "open"]
  /\ wsExitStream(s)
  /\ UNCHANGED <<emitCount, lastEmit, mgrVars, osVars, loopVars, cfgVars, fnVars>>

\* the connection ends (the client leaves or the link drops): the socket is
\* no longer open; its 'close' event is dispatched later
SocketCloses(s) ==
  /\ sock[s] = "open"
  /\ sock' = [sock EXCEPT ![s] = "closing"]
  /\ UNCHANGED <<emitCount, lastEmit, handlers, recv, mgrVars, osVars, loopVars, cfgVars, fnVars>>

\* faulty variant: the handler stays registered after 'close'
CloseEvent_noOff(s) ==
  /\ Idle
  /\ sock[s] = "closing"
  /\ sock' = [sock EXCEPT ![s] = "closed"]
  /\ UNCHANGED <<emitCount, lastEmit, handlers, recv, mgrVars, osVars, loopVars, cfgVars, fnVars>>

\* 'close' on the socket: bitcoind.events.off('exit', handler)
CloseEvent(s) ==
  /\ Idle
  /\ sock[s] = "closing"
  /\ sock' = [sock EXCEPT ![s] = "closed"]
  /\ handlers' = handlers \ {s}
  /\ UNCHANGED <<emitCount, lastEmit, recv, mgrVars, osVars, loopVars, cfgVars, fnVars>>

\* the supervisor as far as it emits 'exit', and the clients of the stream
NextStream ==
  \/ CallStart
  \/ \E p \in Procs, st \in ExitStatuses : ChildDies(p, st)
  \/ \E p \in Procs : ChildExit(p)
  \/ \E s \in Socks : Connect(s)
  \/ \E s \in Socks : SocketCloses(s)
  \/ \E s \in Socks : CloseEvent(s)

SpecStream == Init /\ [][NextStream]_vars

\* one step of the stream as client s sees it
StreamStep(s) ==
  IF sock[s] = "none" /\ sock'[s] = "open"
  THEN recv'[s] = <<[type |-> "snapshot", running |-> child # NoChild, exit |-> exitInfo]>>
  ELSE IF emitCount' # emitCount /\ sock[s] = "open"
  THEN /\ Len(recv'[s]) = Len(recv[s]) + 1
       /\ SubSeq(recv'[s], 1, Len(recv[s])) = recv[s]
       /\ recv'[s][Len(recv'[s])].type = "exit"
       /\ \A f \in DOMAIN lastEmit' : recv'[s][Len(recv'[s])][f] = lastEmit'[f]
  ELSE recv'[s] = recv[s]

\* C16: each subscriber of the exit stream receives exactly one snapshot
\* (the running flag and exitInfo as they are at connect time) when it
\* connects, then exactly one 'exit' message per 'exit' event the supervisor
\* emits while its socket is open, in emission order, and nothing once its
\* socket has closed; its handler is detached by the 'close' event.
C16_ExitStream ==
  /\ [][\A s \in Socks : StreamStep(s)]_vars
  /\ [](\A s \in Socks : sock[s] = "closed" => s \notin handlers)

\* a client connected while the daemon ran, received the snapshot and one
\* 'exit' message, and missed the event emitted after its socket had closed
C16_Witness ==
  \E s \in Socks :
     /\ sock[s] = "closed"
     /\ emitCount = 2
     /\ Len(recv[s]) = 2
     /\ recv[s][1].type = "snapshot" /\ recv[s][1].running
     /\ recv[s][2].type = "exit"


\* ==================================================== the include line
\* ensureIncludeLine on its own, over every content of the user-owned file of
\* up to MaxConfLines lines
MaxConfLines == 3

ConfLineChoices ==
  {BannerComment, BITCOIN_CONF_INCLUDE_LINE, BITCOIN_CONF_INCLUDE_LINE \o ".bak",
   "rpcthreads=8", ""}

\* contents.split('\n') has at least one element
ConfContents == UNION { [1..n -> ConfLineChoices] : n \in 1..MaxConfLines }

InitInclude ==
  /\ dIn \in [contents : ConfContents]
  /\ dOnce = NoRecord
  /\ dTwice = NoRecord
  /\ Quiescent

IncludeOnce ==
  /\ dOnce = NoRecord
  /\ dOnce' = [contents |-> ensureIncludeLine(dIn.contents)]
  /\ UNCHANGED <<dIn, dTwice, machineVars>>

IncludeTwice ==
  /\ dOnce # NoRecord
  /\ dTwice = NoRecord
  /\ dTwice' = [contents |-> ensureIncludeLine(dOnce.contents)]
  /\ UNCHANGED <<dIn, dOnce, machineVars>>

NextInclude == IncludeOnce \/ IncludeTwice

SpecInclude == InitInclude /\ [][NextInclude]_vars

IncludeLines(contents) == SelectSeq(contents, LAMBDA l : l = BITCOIN_CONF_INCLUDE_LINE)
OtherLines(contents) == SelectSeq(contents, LAMBDA l : l # BITCOIN_CONF_INCLUDE_LINE)

\* C19: after ensureIncludeLine has run on any prior content of the
\* user-owned config file, the file begins with the two-line banner, holds
\* exactly one line equal to the include directive, and every other line of
\* the prior content is still there, unchanged and in its original order;
\* running ensureIncludeLine again leaves the content unchanged.
C19_IncludeLineEnforced ==
  /\ dOnce # NoRecord =>
       /\ Len(dOnce.contents) >= 2
       /\ dOnce.contents[1] = BannerComment
       /\ dOnce.contents[2] = BITCOIN_CONF_INCLUDE_LINE
       /\ Len(IncludeLines(dOnce.contents)) = 1
       /\ OtherLines(dOnce.contents) \in
            {OtherLines(dIn.contents), <<BannerComment>> \o OtherLines(dIn.contents)}
  /\ dTwice # NoRecord => dTwice = dOnce


\* ==================================================== a single caller
\* the settings facade driven by one caller: a call starts only when no
\* other call is in flight
NoCallInFlight == \A r \in Reqs : pc[r] = "idle"

NextSingle ==
  \/ \E r \in Reqs, patch \in Patches : NoCallInFlight /\ UpdateSettingsCall(r, patch)
  \/ \E r \in Reqs : NoCallInFlight /\ RestoreDefaultsCall(r)
  \/ \E r \in Reqs : NoCallInFlight /\ BootCall(r)
  \/ \E r \in Reqs : LoadSettings(r)
  \/ \E r \in Reqs : WriteSettingsJson(r)
  \/ \E r \in Reqs : WriteUmbrelConf(r)
  \/ \E r \in Reqs : EnsureIncludeLine(r)
  \/ \E r \in Reqs : RestartAfterWrite(r)
  \/ \E r \in Reqs : BootStart(r)
  \/ \E r \in Reqs : AfterRestart(r)
  \/ \E r \in Reqs : StopCont(r)
  \/ \E r \in Reqs : RestartCont(r)
  \/ \E p \in Procs : ChildDies(p, [code |-> "1", sig |-> "null"])
  \/ \E p \in Procs : ChildError(p)
  \/ \E p \in Procs : ChildExit(p)

\* bitcoin.conf as the user left it: without the banner, or with a second
\* line that only begins with the include line
BitcoinConfChoices ==
  { <<"rpcthreads=8", BITCOIN_CONF_INCLUDE_LINE, "">>,
    <<BannerComment, BITCOIN_CONF_INCLUDE_LINE \o ".bak", "">> }

InitSingle ==
  /\ store \in InitialStores
  /\ installed = {"v29.2", "v29.1"}
  /\ envDefaultChain \in DefaultChainChoices
  /\ bitcoinConf \in BitcoinConfChoices
  /\ InitRest
  /\ dIn = NoRecord /\ dOnce = NoRecord /\ dTwice = NoRecord

SpecSingle == InitSingle /\ [][NextSingle]_vars

C21_WritesFromOwnRead ==
  [][\A r \in Reqs :
       (pc[r] = "write_store" /\ pc'[r] = "write_conf" /\ op[r] = "updateSettings")
          => store' = merged[r]]_vars

\* both calls have completed: the cache holds the record of the prune patch
\* (prune = 2 on the latest version), the store the record of the other
\* patch, without the prune change
C21_Witness ==
  /\ nCalls = 2
  /\ \A r \in Reqs : pc[r] = "idle"
  /\ storeWriter = "updateSettings"
  /\ cachedSettings # Undefined
  /\ cachedSettings["prune"] = 2 /\ cachedSettings["version"] = LATEST
  /\ store["onlynet"] = <<"tor">> /\ store["version"] = "v29.1"
  /\ store["prune"] = 0


\* ============================================ settings.json validity check
\* bin/www: every minute the daemon's settings.json is read; when it does not
\* parse it is copied to a time-stamped backup and overwritten with {}. The
\* three awaits of the callback are three steps; the daemon and the user
\* write the file in between. dIn is the file, dOnce the callback and the
\* clock, dTwice the backup files.
MaxTicks == 2      \* runs of the interval callback
MaxClock == 1      \* values of Date.now() beyond 0

EmptyJson == <<"{", "}">>

\* contents of settings.json: two JSON objects, a truncated object, an empty file
JsonFileChoices == {EmptyJson, <<"{", "a:1", "}">>, <<"{", "a:1">>, <<>>}

\* JSON.parse inside diskService.readJsonFile: an object of at most one member
parsesAsJson(content) ==
  /\ Len(content) \in {2, 3}
  /\ content[1] = "{"
  /\ content[Len(content)] = "}"
  /\ Len(content) = 3 => content[2] \notin {"{", "}"}

\* fs.promises.copyFile(settingsPath, backupPath): the destination is replaced
copyFile(files, path, content) ==
  {f \in files : f.path # path} \cup {[path |-> path, content |-> content]}

InitBackup ==
  /\ dIn \in JsonFileChoices
  /\ dOnce = [pc |-> "idle", seen |-> <<>>, ticks |-> 0, now |-> 0]
  /\ dTwice = {}
  /\ Quiescent

\* the interval fires; getJsonStore() is awaited
IntervalFires ==
  /\ dOnce.pc = "idle"
  /\ dOnce.ticks < MaxTicks
  /\ dOnce' = [dOnce EXCEPT !.pc = "read", !.ticks = dOnce.ticks + 1]
  /\ UNCHANGED <<dIn, dTwice, machineVars>>

\* await diskService.readJsonFile(SETTINGS_PATH): a SyntaxError leads to the
\* backup, a successful parse ends the callback
ReadJsonFile ==
  /\ dOnce.pc = "read"
  /\ dOnce' = [dOnce EXCEPT !.pc = IF parsesAsJson(dIn) THEN "idle" ELSE "backup",
                            !.seen = dIn]
  /\ UNCHANGED <<dIn, dTwice, machineVars>>

\* await createBackup(SETTINGS_PATH): the copy succeeds or throws (disk
\* full, no permission); the catch logs the failure and returns normally
createBackup ==
  /\ dOnce.pc = "backup"
  /\ \E copied \in BOOLEAN :
       dTwice' = IF copied THEN copyFile(dTwice, dOnce.now, dIn) ELSE dTwice
  /\ dOnce' = [dOnce EXCEPT !.pc = "write"]
  /\ UNCHANGED <<dIn, machineVars>>

\* await diskService.writeJsonFile(SETTINGS_PATH, {})
WriteEmptyJson ==
  /\ dOnce.pc = "write"
  /\ dIn' = EmptyJson
  /\ dOnce' = [dOnce EXCEPT !.pc = "idle"]
  /\ UNCHANGED <<dTwice, machineVars>>

\* the daemon rewrites its settings file, or a crash truncates it
DaemonWrites ==
  /\ dOnce.ticks < MaxTicks \/ dOnce.pc # "idle"
  /\ \E c \in JsonFileChoices : c # dIn /\ dIn' = c
  /\ UNCHANGED <<dOnce, dTwice, machineVars>>

ClockAdvances ==
  /\ dOnce.now < MaxClock
  /\ dOnce' = [dOnce EXCEPT !.now = dOnce.now + 1]
  /\ UNCHANGED <<dIn, dTwice, machineVars>>

NextBackup ==
  \/ IntervalFires
  \/ ReadJsonFile
  \/ createBackup
  \/ WriteEmptyJson
  \/ DaemonWrites
  \/ ClockAdvances

SpecBackup == InitBackup /\ [][NextBackup]_vars

\* C22: when the periodic check finds settings.json unparsable, the file is
\* replaced by {} and a backup holding the corrupt content exists afterwards:
\* the overwrite never happens without the backup having been created.
C22_BackupBeforeOverwrite ==
  [][(dOnce.pc = "write" /\ dOnce'.pc = "idle")
        => /\ dIn' = EmptyJson
           /\ \E f \in dTwice' : f.content = dOnce.seen]_vars


\* ================================================ one directive per prefix
SinglePrefixes ==
  {"proxy", "onion", "torcontrol", "i2psam", "prune", "minrelaytxfee", "blockmintxfee"}

\* C23: for every valid settings record the compiled directive list holds at
\* most one directive for each of the prefixes proxy=, onion=, torcontrol=,
\* i2psam=, prune=, minrelaytxfee= and blockmintxfee=, and a proxy= directive
\* is present only when the record's proxy flag is true.
C23_OneDirectivePerPrefix ==
  dTwice # NoRecord =>
    /\ \A key \in SinglePrefixes : Len(DirectivesOf(dTwice.lines, key)) <= 1
    /\ DirectivesOf(dTwice.lines, "proxy") # <<>> => dIn.settings["proxy"] = TRUE

\* a record with the proxy flag set, Tor and I2P in use and pruning on: each
\* of the seven directives is emitted by the base pass or a post-pass
C23_Witness ==
  /\ dTwice # NoRecord
  /\ dIn.settings["proxy"] = TRUE
  /\ dIn.settings["prune"] > 0
  /\ \A key \in SinglePrefixes : Len(DirectivesOf(dTwice.lines, key)) = 1


\* ==================================================== every sat/vB setting
\* C24: every fee policy setting whose declared unit is sat/vB (blockmintxfee,
\* minrelaytxfee and incrementalrelayfee) is converted to BTC/kvB when the
\* managed config is written: the emitted directive value is the stored
\* value x 1e-5, never the raw sat/vB number.
C24_EverySatPerVbConverted ==
  dTwice # NoRecord =>
    \A key \in SatPerVbKeys :
       LET k == dIn.settings[key]
           ds == DirectivesOf(dTwice.lines, key)
       IN /\ Len(ds) = 1
          /\ IsConvertedFee(ds[1].value, k)
          /\ ds[1].value # FeeToString(k)


\* ====================================================== stale diagnostic
\* C25: whenever status().running is true no stale crash diagnostic is
\* exposed: after a successful start() that follows an unexpected exit or a
\* not-installed failure, exitInfo() and the snapshot sent to a newly
\* connected subscriber report no exit diagnostic.
C25_NoStaleDiagnostic ==
  /\ status.running => exitInfo = NullExitInfo
  /\ \A s \in Socks : \A i \in DOMAIN recv[s] :
        (recv[s][i].type = "snapshot" /\ recv[s][i].running)
           => recv[s][i].exit = NullExitInfo


\* ======================================================= rejected updates
\* updateSettings by one caller at a time, with the file operations it awaits
\* either completing or rejecting (disk full, no permission). dIn holds what
\* the call found when it began.
UpdateSettingsTracked(r, patch) ==
  /\ Idle
  /\ Free(r)
  /\ nCalls < MaxCalls
  /\ nCalls' = nCalls + 1
  /\ IF cachedSettings # Undefined
     THEN LET res == updateSettingsMerge(cachedSettings, patch) IN
          IF res.ok THEN Persist(r, res.val, "updateSettings", patch)
          ELSE UNCHANGED <<pc, op, merged, arg>>
     ELSE AwaitLoad(r, "updateSettings", patch)
  /\ dIn' = [store |-> store, umbrelConf |-> umbrelConf, cache |-> cachedSettings]
  /\ UNCHANGED <<mgrVars, emitVars, osVars, microtasks, store, umbrelConf, bitcoinConf,
                 cachedSettings, booted, storeWriter, envDefaultChain, dOnce, dTwice>>

\* the awaited write (writeWithBackup, writeUmbrelConf, ensureIncludeLine)
\* rejects: nothing is written by it, the exception leaves updateSettings
WriteRejects(r) ==
  /\ Idle
  /\ pc[r] \in {"write_store", "write_conf", "ensure_include"}
  /\ Finish(r)
  /\ UNCHANGED <<mgrVars, emitVars, osVars, microtasks, store, umbrelConf, bitcoinConf,
                 cachedSettings, booted, storeWriter, nCalls, envDefaultChain, fnVars>>

NextAtomic ==
  \/ \E r \in Reqs, patch \in Patches : NoCallInFlight /\ UpdateSettingsTracked(r, patch)
  \/ \E r \in Reqs : LoadSettings(r)
  \/ \E r \in Reqs : WriteSettingsJson(r)
  \/ \E r \in Reqs : WriteUmbrelConf(r)
  \/ \E r \in Reqs : EnsureIncludeLine(r)
  \/ \E r \in Reqs : WriteRejects(r)
  \/ \E r \in Reqs : RestartAfterWrite(r)
  \/ \E r \in Reqs : AfterRestart(r)
  \/ \E r \in Reqs : StopCont(r)
  \/ \E r \in Reqs : RestartCont(r)
  \/ \E p \in Procs : ChildDies(p, [code |-> "1", sig |-> "null"])
  \/ \E p \in Procs : ChildError(p)
  \/ \E p \in Procs : ChildExit(p)

SpecAtomic == InitSingle /\ [][NextAtomic]_vars

\* C26: updateSettings is all-or-nothing: if the call rejects (validation
\* failure, a failed write of the settings store, managed config or user-owned
\* config), the persisted settings store and the managed config file still
\* hold the values they had before the call.
C26_RejectedCallChangesNothing ==
  [][\A r \in Reqs :
       (pc[r] \in {"load", "write_store", "write_conf", "ensure_include"} /\ pc'[r] = "idle")
          => /\ store' = dIn.store
             /\ umbrelConf' = dIn.umbrelConf]_vars


\* ================================================== store and managed file
\* C27: once all in-flight updateSettings / restoreDefaults calls have
\* completed, under any interleaving of concurrent calls at their await
\* points, the managed config file equals the compilation of the record
\* currently in the settings store. (No boot call has run: only the two
\* kinds of call the statement names have written.)
C27_ConfMatchesStoreAtRest ==
  (/\ NoCallInFlight
   /\ microtasks = <<>>
   /\ ~booted
   /\ storeWriter \in {"updateSettings", "restoreDefaults"})
     => umbrelConf = writeUmbrelConf(store)


\* ================================================= whose lines in the tail
\* C28: the log tail captured in an unexpected-exit ExitInfo contains only
\* lines written by the child process that exited: no line produced by an
\* earlier child appears in a later child's crash diagnostic.
C28_LogTailOfExitedChild ==
  [][\A p \in Procs :
       (proc[p] = "dead" /\ proc'[p] = "reaped" /\ ~expectingExit)
          => \A i \in DOMAIN exitInfo'.logTail : exitInfo'.logTail[i] = LineOf(p)]_vars


\* ==================================================== startedAt and child
\* C29: in every reachable supervisor state status().startedAt is non-null
\* if and only if a child handle exists (status().running is true); in
\* particular startedAt is null after an unexpected exit as well as after a
\* graceful stop. (startedAt = 0 stands for null.)
C29_StartedAtIffRunning ==
  (status.startedAt # 0) <=> status.running


\* ================================================ lifecycle result tags
\* the response of the facade's start(): {...status(), result}, the status
\* read after bitcoind.start() has returned
startResponse ==
  IF status.running
  THEN [result |-> "no_op", running |-> status.running]
  ELSE [result |-> "started", running |-> status'.running]

\* restart(): {...status(), result: 'started'} after `await bitcoind.restart()`
restartResponse == [result |-> "started", running |-> status'.running]

\* stop(): 'no_op' when not running, else 'stopped' with the status read
\* after `await bitcoind.stop()`
stopResponse == [result |-> "stopped", running |-> status'.running]

\* C30: the result tag of a lifecycle response agrees with the status it
\* carries: start() and restart() return 'started' only when the returned
\* status has running = true, stop() returns 'stopped' only when it has
\* running = false.
C30_ResultAgreesWithStatus ==
  [][/\ CallStart => (startResponse.result = "started" => startResponse.running)
     /\ \A r \in Reqs :
          (RestartCont(r) /\ op[r] = "restart")
             => (restartResponse.result = "started" => restartResponse.running)
     /\ \A r \in Reqs :
          (StopCont(r) /\ op[r] = "stop")
             => (stopResponse.result = "stopped" => ~stopResponse.running)]_vars

====
